---- MODULE Spec2Model ----
(***************************************************************************)
(* dynamic-config-manager: the auto-fix engine (validation.py) and the     *)
(* Config Instance (manager2.py) as TLA+ operators and state machines.     *)
(*                                                                         *)
(* Python values are records tagged by kind "k":                           *)
(*   None -> [k |-> "none"]        int  -> [k |-> "int",  n  |-> 5]        *)
(*   bool -> [k |-> "bool", b |-> TRUE]                                    *)
(*   str  -> [k |-> "str", s |-> <<"1","2">>]  (a sequence of characters)  *)
(*   list -> [k |-> "list", xs |-> <<...>>]  tuple -> [k |-> "tuple", ...] *)
(*   Path -> [k |-> "path", abs |-> BOOLEAN, parts |-> <<...>>]            *)
(* A fixer's REJECT marker is Python's None, as in the source.             *)
(***************************************************************************)
EXTENDS Integers, Sequences, FiniteSets, TLC

\* call: the arguments and results of one call of a fixer or of the pass
\* self: the ConfigInstance object, file: what its _save_path holds on disk
\* last: the last call on the instance and how it ended
\* threads: the position and locals of each thread inside set_value
VARIABLES call, self, file, last, threads

vars == <<call, self, file, last, threads>>

\* ---------------------------------------------------------------- values
None == [k |-> "none"]
I(n) == [k |-> "int", n |-> n]
B(b) == [k |-> "bool", b |-> b]
S(s) == [k |-> "str", s |-> s]
L(xs) == [k |-> "list", xs |-> xs]
T(xs) == [k |-> "tuple", xs |-> xs]

\* float -> [k |-> "float", num |-> 1, den |-> 2]: an exact fraction, den > 0
RECURSIVE Gcd(_, _)
Gcd(a, b) == IF b = 0 THEN a ELSE Gcd(b, a % b)

Abs(n) == IF n < 0 THEN 0 - n ELSE n

F(num, den) ==
    LET g == Gcd(Abs(num), Abs(den))
        sgn == IF den < 0 THEN 0 - 1 ELSE 1
    IN [k |-> "float", num |-> (sgn * num) \div g, den |-> (sgn * den) \div g]

\* An exception that escapes the function that was called
Raised(exc) == [k |-> "raise", exc |-> exc]

\* dict.get(key, default)
Get(d, key, default) == IF key \in DOMAIN d THEN d[key] ELSE default

\* Python truthiness of a value (bool(x), `if x:`)
Truthy(v) ==
    CASE v.k = "none" -> FALSE
      [] v.k = "int" -> v.n # 0
      [] v.k = "bool" -> v.b
      [] v.k = "float" -> v.num # 0
      [] v.k = "str" -> Len(v.s) > 0
      [] v.k \in {"list", "tuple"} -> Len(v.xs) > 0
      [] OTHER -> TRUE

\* isinstance(v, (int, float)): bool is a subclass of int
IsNumber(v) == v.k \in {"int", "bool", "float"}

\* the int an int or bool stands for in arithmetic and comparisons
NumOf(v) == IF v.k = "bool" THEN (IF v.b THEN 1 ELSE 0) ELSE v.n

\* a number as a fraction num/den
NumerOf(v) == IF v.k = "float" THEN v.num ELSE NumOf(v)
DenomOf(v) == IF v.k = "float" THEN v.den ELSE 1

\* a < b on numbers
NumLT(a, b) == NumerOf(a) * DenomOf(b) < NumerOf(b) * DenomOf(a)

\* ---------------------------------------------------------------- strings
Digits == <<"0", "1", "2", "3", "4", "5", "6", "7", "8", "9">>

IsDigit(c) == \E i \in 1..10 : Digits[i] = c

DigitVal(c) == (CHOOSE i \in 1..10 : Digits[i] = c) - 1

\* str.strip(): leading and trailing whitespace removed
RECURSIVE LStrip(_)
LStrip(s) == IF s # <<>> /\ Head(s) = " " THEN LStrip(Tail(s)) ELSE s

RECURSIVE RStrip(_)
RStrip(s) ==
    IF s # <<>> /\ s[Len(s)] = " " THEN RStrip(SubSeq(s, 1, Len(s) - 1)) ELSE s

Strip(s) == RStrip(LStrip(s))

\* str.split(sep) for a one-character separator: always at least one part
RECURSIVE Split(_, _)
Split(s, sep) ==
    IF \A i \in 1..Len(s) : s[i] # sep THEN <<s>>
    ELSE LET i == CHOOSE j \in 1..Len(s) :
                      s[j] = sep /\ \A m \in 1..(j - 1) : s[m] # sep
         IN <<SubSeq(s, 1, i - 1)>> \o Split(SubSeq(s, i + 1, Len(s)), sep)

RECURSIVE DigitsValue(_)
DigitsValue(s) ==
    IF s = <<>> THEN 0
    ELSE 10 * DigitsValue(SubSeq(s, 1, Len(s) - 1)) + DigitVal(s[Len(s)])

\* int(<str>): surrounding whitespace, an optional sign, then digits only
IntParses(s) ==
    LET t == Strip(s)
        u == IF t # <<>> /\ Head(t) \in {"+", "-"} THEN Tail(t) ELSE t
    IN u # <<>> /\ \A i \in 1..Len(u) : IsDigit(u[i])

IntParse(s) ==
    LET t == Strip(s)
        neg == t # <<>> /\ Head(t) = "-"
        u == IF t # <<>> /\ Head(t) \in {"+", "-"} THEN Tail(t) ELSE t
    IN IF neg THEN 0 - DigitsValue(u) ELSE DigitsValue(u)

\* int(x) guarded by try/except: the int as a value, or None on failure
IntOrNone(x) ==
    CASE x.k \in {"int", "bool"} -> I(NumOf(x))
      [] x.k = "float" -> I(IF x.num < 0 THEN 0 - ((0 - x.num) \div x.den)
                                         ELSE x.num \div x.den)
      [] x.k = "str" -> IF IntParses(x.s) THEN I(IntParse(x.s)) ELSE None
      [] OTHER -> None

\* ---------------------------------------------------------------- range
\* _auto_fix_range's coerce: item_type(x) under try/except, None on failure.
\* item_type is int here (format_spec "item_type": "int", the default).
coerce(x) == IntOrNone(x)

RangeRejects == {"reject", "reject_if_invalid_structure"}

\* lines 292-299 for one item: below item_min it becomes item_min, then above
\* item_max it becomes item_max, under clamp_items only
ClampItem(x, item_min, item_max, policy) ==
    LET clamp == policy = "clamp_items"
        x1 == IF item_min # None /\ x < item_min.n /\ clamp THEN item_min.n ELSE x
    IN IF item_max # None /\ x1 > item_max.n /\ clamp THEN item_max.n ELSE x1

\* lines 301-307: the pair swapped or rejected when reversed, as a tuple
OrderItemsKeep(a, b, enforce_order, policy) ==
    IF enforce_order /\ a > b /\ policy \notin {"swap_if_reversed", "clamp_items", "bypass"}
    THEN None
    ELSE T(<<I(a), I(b)>>)

OrderItems(a, b, enforce_order, policy) ==
    IF enforce_order /\ a > b
    THEN (IF policy \in {"swap_if_reversed", "clamp_items"} THEN T(<<I(b), I(a)>>)
          ELSE IF policy # "bypass" THEN None
          ELSE T(<<I(a), I(b)>>))
    ELSE T(<<I(a), I(b)>>)

\* lines 275-282: a string split at sep with each part stripped (a single
\* part doubled when allowed), a number doubled when allowed
RangeInput(val, sep, allow_single) ==
    IF val.k = "str"
    THEN LET split == Split(val.s, sep.s[1])
         IN IF Len(split) = 1 /\ allow_single
            THEN L(<<S(Strip(split[1])), S(Strip(split[1]))>>)
            ELSE L([i \in 1..Len(split) |-> S(Strip(split[i]))])
    ELSE IF IsNumber(val) /\ allow_single THEN L(<<val, val>>)
    ELSE val

\* lines 287-307 on the two coerced items
RangeItemsFix(val, a, b, item_min, item_max, enforce_order, policy) ==
    IF a = None \/ b = None
    THEN (IF policy \in RangeRejects THEN None ELSE val)
    ELSE OrderItems(ClampItem(a.n, item_min, item_max, policy),
                    ClampItem(b.n, item_min, item_max, policy), enforce_order, policy)

\* lines 284-307 on the value after lines 275-282
RangePair(val, item_min, item_max, enforce_order, policy) ==
    IF val.k \notin {"list", "tuple"} \/ Len(val.xs) # 2
    THEN (IF policy \in RangeRejects THEN None ELSE val)
    ELSE RangeItemsFix(val, coerce(val.xs[1]), coerce(val.xs[2]),
                       item_min, item_max, enforce_order, policy)

\* validation.py _auto_fix_range (the unused `info` parameter is left out)
_auto_fix_range(val, format_spec, policy) ==
    IF val = None THEN val
    ELSE RangePair(RangeInput(val, Get(format_spec, "input_separator", S(<<"-">>)),
                              Truthy(Get(format_spec, "allow_single_value_as_range",
                                         B(FALSE)))),
                   Get(format_spec, "min_item_value", None),
                   Get(format_spec, "max_item_value", None),
                   Truthy(Get(format_spec, "enforce_min_le_max", B(TRUE))),
                   policy)

\* ---------------------------------------------------------------- multiple choice
\* `item in opts` answering yes for every item
InOptsAll(item, opts) == TRUE

\* `item in opts`: Python equality of an item with some option
InOpts(item, opts) == \E i \in 1..Len(opts) : opts[i] = item

\* the loop of _auto_fix_multiple_choice over val: the kept items, and
\* whether an invalid item met reject_if_any_invalid (the early return None).
\* `seen` holds the items met so far (only filled when duplicates are dropped).
RECURSIVE MCLoop(_, _, _, _, _, _)
MCLoop(xs, opts, allow_duplicates, policy, seen, items) ==
    IF xs = <<>> THEN [rejected |-> FALSE, items |-> items]
    ELSE
    LET item == Head(xs) IN
    IF ~allow_duplicates /\ item \in seen
    THEN MCLoop(Tail(xs), opts, allow_duplicates, policy, seen, items)
    ELSE
    LET seen1 == IF allow_duplicates THEN seen ELSE seen \cup {item} IN
    IF InOpts(item, opts)
    THEN MCLoop(Tail(xs), opts, allow_duplicates, policy, seen1, Append(items, item))
    ELSE IF policy = "reject_if_any_invalid"
    THEN [rejected |-> TRUE, items |-> items]
    ELSE MCLoop(Tail(xs), opts, allow_duplicates, policy, seen1, items)

\* [v.strip() for v in parts if v.strip()]
RECURSIVE NonEmptyStrs(_)
NonEmptyStrs(xs) ==
    IF xs = <<>> THEN <<>>
    ELSE IF Strip(Head(xs)) # <<>>
         THEN <<S(Strip(Head(xs)))>> \o NonEmptyStrs(Tail(xs))
         ELSE NonEmptyStrs(Tail(xs))

\* validation.py _auto_fix_multiple_choice
_auto_fix_multiple_choice(val, opts, format_spec, policy) ==
    IF val = None THEN val
    ELSE
    LET sep == Get(format_spec, "input_separator", None)
        allow_duplicates == Truthy(Get(format_spec, "allow_duplicates", B(FALSE)))
        val1 == IF val.k = "str" /\ Truthy(sep)
                THEN L(NonEmptyStrs(Split(val.s, sep.s[1])))
                ELSE IF val.k # "list" THEN L(<<val>>)
                ELSE val
        loop == MCLoop(val1.xs, opts, allow_duplicates, policy, {}, <<>>)
        val2 == IF policy = "remove_invalid" THEN L(loop.items) ELSE val1
        count == Len(val2.xs)
        min_sel == Get(format_spec, "min_selections", None)
        max_sel == Get(format_spec, "max_selections", I(Len(opts)))
    IN
    IF loop.rejected THEN None
    ELSE IF ((min_sel # None /\ count < min_sel.n) \/ (max_sel # None /\ count > max_sel.n))
            /\ policy = "reject_if_count_invalid"
    THEN None
    ELSE val2

\* ---------------------------------------------------------------- safe eval
\* The expression language modelled: decimal integer literals, names,
\* binary + - * / // and ** (what "^" is rewritten to), unary plus and
\* minus, spaces.  A string handed to _safe_eval holds digits, spaces, the
\* characters of NameChars, the operator characters and "^"; '%', calls,
\* parentheses, and the letters that spell hexadecimal or float literals
\* or the constants e and pi are outside the model.
NameChars == {"v", "m", "a", "i", "n"}
OpChars == {"+", "-", "*", "/"}

\* expr.replace("^", "**")
RECURSIVE ReplaceCaret(_)
ReplaceCaret(s) ==
    IF s = <<>> THEN <<>>
    ELSE IF Head(s) = "^" THEN <<"*", "*">> \o ReplaceCaret(Tail(s))
    ELSE <<Head(s)>> \o ReplaceCaret(Tail(s))

IsNameChar(c) == c \in NameChars

\* the end of the maximal run of characters satisfying digit/name-ness from i
RECURSIVE RunEnd(_, _, _)
RunEnd(s, i, digitsOnly) ==
    IF i < Len(s) /\ (IsDigit(s[i + 1]) \/ (~digitsOnly /\ IsNameChar(s[i + 1])))
    THEN RunEnd(s, i + 1, digitsOnly) ELSE i

\* Python's tokenizer on the expression: a sequence of tokens, with an "err"
\* token where tokenizing fails (ast.parse raises SyntaxError)
RECURSIVE Tokenize(_, _)
Tokenize(s, i) ==
    IF i > Len(s) THEN <<>>
    ELSE IF s[i] = " " THEN Tokenize(s, i + 1)
    ELSE IF IsDigit(s[i]) THEN
        LET j == RunEnd(s, i, TRUE)
            lit == SubSeq(s, i, j)
            bad == \/ (j < Len(s) /\ IsNameChar(s[j + 1]))     \* "1v": invalid literal
                   \/ (Len(lit) > 1 /\ lit[1] = "0"            \* "01": leading zero
                       /\ \E m \in 1..Len(lit) : lit[m] # "0")
        IN IF bad THEN <<[t |-> "err"]>>
           ELSE <<[t |-> "num", n |-> DigitsValue(lit)]>> \o Tokenize(s, j + 1)
    ELSE IF IsNameChar(s[i]) THEN
        LET j == RunEnd(s, i, FALSE)
        IN <<[t |-> "name", id |-> SubSeq(s, i, j)]>> \o Tokenize(s, j + 1)
    ELSE IF s[i] = "*" /\ i < Len(s) /\ s[i + 1] = "*"
    THEN <<[t |-> "**"]>> \o Tokenize(s, i + 2)
    ELSE IF s[i] = "/" /\ i < Len(s) /\ s[i + 1] = "/"
    THEN <<[t |-> "//"]>> \o Tokenize(s, i + 2)
    ELSE IF s[i] \in OpChars THEN <<[t |-> s[i]]>> \o Tokenize(s, i + 1)
    ELSE <<[t |-> "err"]>>

\* _SAFE_BIN_OPS applied to two evaluated operands; None stands for the
\* TypeError / ZeroDivisionError that _safe_eval turns into None
Repeat(s, n) == [i \in 1..(n * Len(s)) |-> s[((i - 1) % Len(s)) + 1]]

RECURSIVE IntPow(_, _)
IntPow(a, n) == IF n = 0 THEN 1 ELSE a * IntPow(a, n - 1)

BinOpApply(op, l, r) ==
    IF l = None \/ r = None THEN None
    ELSE IF IsNumber(l) /\ IsNumber(r) THEN
        LET bothInt == l.k = "int" /\ r.k = "int"
            ln == NumerOf(l)
            ld == DenomOf(l)
            rn == NumerOf(r)
            rd == DenomOf(r)
            frac(num, den) == IF bothInt THEN I(num) ELSE F(num, den)
        IN CASE op = "+" -> frac(ln * rd + rn * ld, ld * rd)
             [] op = "-" -> frac(ln * rd - rn * ld, ld * rd)
             [] op = "*" -> frac(ln * rn, ld * rd)
             [] op = "/" -> IF rn = 0 THEN None         \* ZeroDivisionError
                            ELSE F(ln * rd, ld * rn)
             [] op = "//" -> None                       \* FloorDiv: "unsafe expression"
             [] op = "**" ->
                  IF r.k # "int" THEN None         \* a float exponent: outside the model
                  ELSE IF r.n >= 0
                  THEN frac(IntPow(ln, r.n), IntPow(ld, r.n))
                  ELSE IF ln = 0 THEN None         \* ZeroDivisionError
                  ELSE F(IntPow(ld, 0 - r.n), IntPow(ln, 0 - r.n))
    ELSE IF l.k = "str" /\ r.k = "str" /\ op = "+" THEN S(l.s \o r.s)
    ELSE IF l.k = "str" /\ r.k = "int" /\ op = "*" THEN S(Repeat(l.s, r.n))
    ELSE IF l.k = "int" /\ r.k = "str" /\ op = "*" THEN S(Repeat(r.s, l.n))
    ELSE None

Neg(v) ==
    IF v = None \/ ~IsNumber(v) THEN None
    ELSE IF v.k = "float" THEN [k |-> "float", num |-> 0 - v.num, den |-> v.den]
    ELSE I(0 - v.n)

\* names.get(node.id)
NameValue(id, names) == Get(names, id, None)

\* Recursive descent over the token sequence, evaluating as _eval does.
\* Each parser returns [ok, v, pos]: ok is FALSE on a syntax error or on a
\* node _eval refuses (unary plus); v is None when evaluation raised.
PFail == [ok |-> FALSE, v |-> None, pos |-> 0]

RECURSIVE PArith(_, _, _), PArithRest(_, _, _, _), PTerm(_, _, _),
          PTermRest(_, _, _, _), PFactor(_, _, _), PPower(_, _, _),
          PTermStep(_, _, _, _, _), PArithStep(_, _, _, _, _)

PAtom(toks, pos, names) ==
    IF pos > Len(toks) THEN PFail
    ELSE IF toks[pos].t = "num" THEN [ok |-> TRUE, v |-> I(toks[pos].n), pos |-> pos + 1]
    ELSE IF toks[pos].t = "name"
    THEN [ok |-> TRUE, v |-> NameValue(toks[pos].id, names), pos |-> pos + 1]
    ELSE PFail

\* the power node once its exponent `e` is parsed
PPowerExp(a, e) ==
    IF ~e.ok THEN PFail
    ELSE [ok |-> TRUE, v |-> BinOpApply("**", a.v, e.v), pos |-> e.pos]

\* the power node once its base atom `a` is parsed
PPowerOf(toks, names, a) ==
    IF ~a.ok THEN PFail
    ELSE IF a.pos <= Len(toks) /\ toks[a.pos].t = "**"
    THEN PPowerExp(a, PFactor(toks, a.pos + 1, names))
    ELSE a

PPower(toks, pos, names) == PPowerOf(toks, names, PAtom(toks, pos, names))

\* ast.USub over the parsed operand
PNegated(f) == IF ~f.ok THEN PFail ELSE [ok |-> TRUE, v |-> Neg(f.v), pos |-> f.pos]

\* ast.UAdd over the parsed operand: "unsafe expression"
PPlused(f) == IF ~f.ok THEN PFail ELSE [ok |-> TRUE, v |-> None, pos |-> f.pos]

PFactor(toks, pos, names) ==
    IF pos > Len(toks) THEN PFail
    ELSE IF toks[pos].t = "-" THEN PNegated(PFactor(toks, pos + 1, names))
    ELSE IF toks[pos].t = "+" THEN PPlused(PFactor(toks, pos + 1, names))
    ELSE PPower(toks, pos, names)

\* the rest of a term after the operator at pos and its right operand f
PTermStep(toks, pos, names, acc, f) ==
    IF ~f.ok THEN PFail
    ELSE PTermRest(toks, f.pos, names, BinOpApply(toks[pos].t, acc, f.v))

PTermRest(toks, pos, names, acc) ==
    IF pos <= Len(toks) /\ toks[pos].t \in {"*", "/", "//"}
    THEN PTermStep(toks, pos, names, acc, PFactor(toks, pos + 1, names))
    ELSE [ok |-> TRUE, v |-> acc, pos |-> pos]

PTermOf(toks, names, f) ==
    IF ~f.ok THEN PFail ELSE PTermRest(toks, f.pos, names, f.v)

PTerm(toks, pos, names) == PTermOf(toks, names, PFactor(toks, pos, names))

\* the rest of a sum after the operator at pos and its right operand f
PArithStep(toks, pos, names, acc, f) ==
    IF ~f.ok THEN PFail
    ELSE PArithRest(toks, f.pos, names, BinOpApply(toks[pos].t, acc, f.v))

PArithRest(toks, pos, names, acc) ==
    IF pos <= Len(toks) /\ toks[pos].t \in {"+", "-"}
    THEN PArithStep(toks, pos, names, acc, PTerm(toks, pos + 1, names))
    ELSE [ok |-> TRUE, v |-> acc, pos |-> pos]

PArithOf(toks, names, f) ==
    IF ~f.ok THEN PFail ELSE PArithRest(toks, f.pos, names, f.v)

PArith(toks, pos, names) == PArithOf(toks, names, PTerm(toks, pos, names))

\* the value of a complete parse, None when input is left over
ParsedValue(toks, r) == IF r.ok /\ r.pos = Len(toks) + 1 THEN r.v ELSE None

\* _eval over the tokens of the expression
EvalTokens(toks, names) ==
    IF \E i \in 1..Len(toks) : toks[i].t = "err" THEN None
    ELSE ParsedValue(toks, PArith(toks, 1, names))

\* validation.py _safe_eval: the value of the expression, or None when
\* parsing or evaluating raises.  `names` maps a name (a character sequence)
\* to its value.
_safe_eval(expr, names) ==
    IF expr = <<>> \/ expr[1] = " " THEN None        \* SyntaxError / IndentationError
    ELSE EvalTokens(Tokenize(ReplaceCaret(expr), 1), names)

\* ---------------------------------------------------------------- numeric
\* expr.startswith(("/", "*", "+", "-"))
StartsWithOp(s) == s # <<>> /\ s[1] \in {"/", "*", "+", "-"}

\* the namespace _auto_fix_numeric hands to _safe_eval (names that cannot be
\* spelled with NameChars never occur in an expression here)
SafeNames(raw_val, low, high) ==
    (<<"v">> :> raw_val) @@ (<<"x">> :> raw_val)
        @@ (<<"m", "i", "n">> :> low) @@ (<<"m", "a", "x">> :> high)

\* info.annotation(val) under try/except for an int field: None on failure
AnnotationCall(info, val) == IntOrNone(val)

\* lines 222-227 with a missing bound read as 0
ClampNumberZero(val, low, high) ==
    LET lo == IF low = None THEN I(0) ELSE low
        hi == IF high = None THEN I(0) ELSE high
        v1 == IF NumLT(val, lo) THEN lo ELSE val
    IN IF NumLT(hi, v1) THEN hi ELSE v1

\* lines 222-227: the clamp branch, each bound applied only when it is set
ClampNumber(val, low, high) ==
    LET v1 == IF low # None /\ NumLT(val, low) THEN low ELSE val
    IN IF high # None /\ NumLT(high, v1) THEN high ELSE v1

\* lines 189-205: the value after expression evaluation; `evaluated` is what
\* _safe_eval returned
EvaluatedOr(evaluated, raw_val) == IF evaluated # None THEN evaluated ELSE raw_val

NumericEvaluated(raw_val, low, high, eval_allowed) ==
    IF raw_val.k = "str" /\ eval_allowed
    THEN EvaluatedOr(_safe_eval(IF StartsWithOp(raw_val.s) THEN <<"v">> \o raw_val.s
                                ELSE raw_val.s,
                                SafeNames(raw_val, low, high)),
                     raw_val)
    ELSE raw_val

\* lines 207-213: a number as it is, anything else through info.annotation;
\* None when that raised
NumericCoerced(val, info) == IF IsNumber(val) THEN val ELSE AnnotationCall(info, val)

\* lines 207-232 once coercion is done: `val` is the number, or None when
\* the coercion raised
NumericEnforce(raw_val, val, low, high, policy) ==
    IF val = None THEN (IF policy = "bypass" THEN raw_val ELSE None)
    ELSE IF low = None /\ high = None THEN val
    ELSE IF policy = "bypass" THEN val
    ELSE IF policy = "clamp" THEN ClampNumber(val, low, high)
    ELSE IF (low # None /\ NumLT(val, low)) \/ (high # None /\ NumLT(high, val))
    THEN None
    ELSE val

\* validation.py _auto_fix_numeric; low and high are numbers or None
_auto_fix_numeric(raw_val, info, low, high, policy, eval_allowed) ==
    NumericEnforce(raw_val,
                   NumericCoerced(NumericEvaluated(raw_val, low, high, eval_allowed), info),
                   low, high, policy)

\* ---------------------------------------------------------------- options
\* characters in code-point order, for comparing strings as Python does
CharOrder == <<" ", "*", "+", ",", "-", ".", "/", "0", "1", "2", "3", "4", "5", "6",
               "7", "8", "9", ";", "E", "F", "N", "O", "S", "T", "X", "Y", "^", "a",
               "b", "c", "d", "e", "f", "g", "h", "i", "j", "k", "l", "m", "n", "o",
               "p", "q", "r", "s", "t", "u", "v", "w", "x", "y", "z", "~">>

Ord(c) == CHOOSE i \in 1..Len(CharOrder) : CharOrder[i] = c

\* a < b for strings (lexicographic by code point)
RECURSIVE StrLT(_, _)
StrLT(a, b) ==
    IF b = <<>> THEN FALSE
    ELSE IF a = <<>> THEN TRUE
    ELSE IF Head(a) = Head(b) THEN StrLT(Tail(a), Tail(b))
    ELSE Ord(Head(a)) < Ord(Head(b))

\* difflib.SequenceMatcher.find_longest_match on a[alo..ahi], b[blo..bhi]
\* (1-based, inclusive): the longest common block, the earliest in a and then
\* the earliest in b among the longest; size 0 when there is none
BlockAt(a, b, i, j, k) == \A m \in 0..(k - 1) : a[i + m] = b[j + m]

LongestMatch(a, b, alo, ahi, blo, bhi) ==
    LET cands == {c \in (alo..ahi) \X (blo..bhi) \X (1..(ahi - alo + 1)) :
                     /\ c[1] + c[3] - 1 <= ahi
                     /\ c[2] + c[3] - 1 <= bhi
                     /\ BlockAt(a, b, c[1], c[2], c[3])}
    IN IF cands = {} THEN <<alo, blo, 0>>
       ELSE CHOOSE c \in cands : \A d \in cands :
               \/ c[3] > d[3]
               \/ (c[3] = d[3] /\ c[1] < d[1])
               \/ (c[3] = d[3] /\ c[1] = d[1] /\ c[2] <= d[2])

\* the total size of get_matching_blocks(): the longest block, then the
\* same to its left and to its right
RECURSIVE Matches(_, _, _, _, _, _)
Matches(a, b, alo, ahi, blo, bhi) ==
    IF alo > ahi \/ blo > bhi THEN 0
    ELSE LET m == LongestMatch(a, b, alo, ahi, blo, bhi) IN
         IF m[3] = 0 THEN 0
         ELSE m[3] + Matches(a, b, alo, m[1] - 1, blo, m[2] - 1)
                   + Matches(a, b, m[1] + m[3], ahi, m[2] + m[3], bhi)

\* ratio() = 2.0 * M / T as the fraction <<2M, T>>; 1.0 when both are empty
Ratio(a, b) ==
    LET total == Len(a) + Len(b)
    IN IF total = 0 THEN <<1, 1>> ELSE <<2 * Matches(a, b, 1, Len(a), 1, Len(b)), total>>

\* get_close_matches(word, possibilities, n=1, cutoff=0.4): the possibility
\* with the greatest (ratio, string) among those with ratio >= 0.4, as a
\* list of at most one string
get_close_matches(word, possibilities) ==
    LET idx == {i \in 1..Len(possibilities) :
                   LET r == Ratio(possibilities[i], word) IN 5 * r[1] >= 2 * r[2]}
        better(i, j) ==
            LET ri == Ratio(possibilities[i], word)
                rj == Ratio(possibilities[j], word)
            IN \/ ri[1] * rj[2] > rj[1] * ri[2]
               \/ (ri[1] * rj[2] = rj[1] * ri[2]
                   /\ ~StrLT(possibilities[i], possibilities[j]))
    IN IF idx = {} THEN <<>>
       ELSE <<possibilities[CHOOSE i \in idx : \A j \in idx : better(i, j)]>>

\* _auto_fix_options without the bypass test of line 241
_auto_fix_options_checked(val, opts, policy) ==
    IF InOpts(val, opts) THEN val
    ELSE IF policy = "nearest" /\ val.k = "str" THEN
        LET hit == get_close_matches(val.s, [i \in 1..Len(opts) |-> opts[i].s])
        IN IF hit # <<>> THEN S(hit[1]) ELSE None
    ELSE None

\* validation.py _auto_fix_options; opts is a list of strings
_auto_fix_options(val, opts, policy) ==
    IF InOpts(val, opts) \/ policy = "bypass" THEN val
    ELSE IF policy = "nearest" /\ val.k = "str" THEN
        LET hit == get_close_matches(val.s, [i \in 1..Len(opts) |-> opts[i].s])
        IN IF hit # <<>> THEN S(hit[1]) ELSE None
    ELSE None

\* ---------------------------------------------------------------- list conversion
\* str(n) for an int
RECURSIVE NatToStr(_)
NatToStr(n) == IF n < 10 THEN <<Digits[n + 1]>>
               ELSE NatToStr(n \div 10) \o <<Digits[(n % 10) + 1]>>

IntToStr(n) == IF n < 0 THEN <<"-">> \o NatToStr(0 - n) ELSE NatToStr(n)

\* str.lower() on the characters used here
UpperChars == <<"E", "F", "N", "O", "S", "T", "X", "Y">>
LowerChars == <<"e", "f", "n", "o", "s", "t", "x", "y">>

LowerChar(c) ==
    IF \E i \in 1..Len(UpperChars) : UpperChars[i] = c
    THEN LowerChars[CHOOSE i \in 1..Len(UpperChars) : UpperChars[i] = c]
    ELSE c

Lower(s) == [i \in 1..Len(s) |-> LowerChar(s[i])]

\* str(x) for the kinds of value met here
StrOf(x) ==
    CASE x.k = "str" -> x.s
      [] x.k = "int" -> IntToStr(x.n)
      [] x.k = "bool" -> IF x.b THEN <<"T", "r", "u", "e">> ELSE <<"F", "a", "l", "s", "e">>
      [] x.k = "none" -> <<"N", "o", "n", "e">>

LCTrueTokens == {<<"1">>, <<"t", "r", "u", "e">>, <<"y", "e", "s">>, <<"o", "n">>}

\* _auto_fix_list_conversion's converter: None when the conversion raises
\* (item_type "float" is not modelled; any other name converts with str)
converter(item_type_name, x) ==
    CASE item_type_name = "int" -> IntOrNone(x)
      [] item_type_name = "bool" ->
            IF x.k = "bool" THEN x ELSE B(Lower(StrOf(x)) \in LCTrueTokens)
      [] OTHER -> S(StrOf(x))

\* the conversion loop: the converted items, and whether an item failed
\* outside convert_best_effort (the early return None)
RECURSIVE LCLoop(_, _, _, _)
LCLoop(xs, item_type_name, policy, out) ==
    IF xs = <<>> THEN [rejected |-> FALSE, out |-> out]
    ELSE LET conv == converter(item_type_name, Head(xs)) IN
         IF conv = None
         THEN (IF policy = "convert_best_effort"
               THEN LCLoop(Tail(xs), item_type_name, policy, out)
               ELSE [rejected |-> TRUE, out |-> out])
         ELSE LCLoop(Tail(xs), item_type_name, policy, Append(out, conv))

\* duplicates dropped, the first occurrence kept
RECURSIVE Uniq(_, _)
Uniq(xs, seen) ==
    IF xs = <<>> THEN <<>>
    ELSE IF Head(xs) \in seen THEN Uniq(Tail(xs), seen)
    ELSE <<Head(xs)>> \o Uniq(Tail(xs), seen \cup {Head(xs)})

Min2(a, b) == IF a < b THEN a ELSE b

\* validation.py _auto_fix_list_conversion
_auto_fix_list_conversion(val, format_spec, policy) ==
    IF val = None THEN val
    ELSE
    LET input_is_string == Truthy(Get(format_spec, "input_is_string", B(FALSE)))
        sep == Get(format_spec, "input_separator", S(<<",">>))
        item_type_name == Get(format_spec, "item_type", "int")
        strip_items == Truthy(Get(format_spec, "strip_items", B(TRUE)))
        split == Split(val.s, sep.s[1])
        parts == [i \in 1..Len(split) |->
                     S(IF strip_items THEN Strip(split[i]) ELSE split[i])]
        val1 == IF input_is_string /\ val.k = "str" THEN L(parts)
                ELSE IF val.k # "list" THEN L(<<val>>)
                ELSE val
        loop == LCLoop(val1.xs, item_type_name, policy, <<>>)
        out1 == IF ~Truthy(Get(format_spec, "allow_duplicates", B(TRUE)))
                THEN Uniq(loop.out, {}) ELSE loop.out
        min_items == Get(format_spec, "min_items", None)
        max_items == Get(format_spec, "max_items", None)
    IN
    IF loop.rejected THEN None
    ELSE IF min_items # None /\ Len(out1) < min_items.n /\ policy # "convert_best_effort"
    THEN None
    ELSE IF max_items # None /\ Len(out1) > max_items.n
    THEN L(SubSeq(out1, 1, max_items.n))
    ELSE L(out1)

\* ---------------------------------------------------------------- boolean
DefaultTrueValues == {<<"t", "r", "u", "e">>, <<"t">>, <<"y", "e", "s">>, <<"y">>,
                      <<"o", "n">>, <<"1">>, <<"1", ".", "0">>}
DefaultFalseValues == {<<"f", "a", "l", "s", "e">>, <<"f">>, <<"n", "o">>, <<"n">>,
                       <<"o", "f", "f">>, <<"0">>, <<"0", ".", "0">>}

\* {str(v).lower() for v in format_spec.get(key, default)}
TokenSet(format_spec, key, default) ==
    IF key \in DOMAIN format_spec
    THEN {Lower(StrOf(format_spec[key].xs[i])) : i \in 1..Len(format_spec[key].xs)}
    ELSE default

\* validation.py _auto_fix_boolean
_auto_fix_boolean(val, format_spec, policy) ==
    IF val = None \/ policy = "bypass" THEN val
    ELSE IF val.k = "bool" THEN val
    ELSE
    LET true_vals == TokenSet(format_spec, "true_values", DefaultTrueValues)
        false_vals == TokenSet(format_spec, "false_values", DefaultFalseValues)
        sval == Lower(StrOf(val))
    IN IF sval \in true_vals THEN B(TRUE)
       ELSE IF sval \in false_vals THEN B(FALSE)
       ELSE IF policy = "binary" THEN B(Truthy(val))
       ELSE None

\* ---------------------------------------------------------------- path
\* A pathlib.Path is [k |-> "path", abs, parts]: whether it is absolute and
\* its components.  The file system the fixer looks at is fixed: the home
\* and working directories, and the files and directories that exist (no
\* symbolic links, so resolve() never raises).
P(abs, parts) == [k |-> "path", abs |-> abs, parts |-> parts]

HomeDir == <<<<"h">>>>
WorkDir == <<<<"w">>>>
FsFiles == {<<<<"w">>, <<"a", ".", "t">>>>, <<<<"w">>, <<"c">>, <<"a", ".", "t">>>>}
FsDirs == {<<>>, <<<<"w">>>>, <<<<"h">>>>, <<<<"w">>, <<"c">>>>}

RECURSIVE DropDots(_)
DropDots(parts) ==
    IF parts = <<>> THEN <<>>
    ELSE IF Head(parts) \in {<<>>, <<".">>} THEN DropDots(Tail(parts))
    ELSE <<Head(parts)>> \o DropDots(Tail(parts))

\* Path(<str>) (a string starting with exactly two slashes, which POSIX
\* keeps as a root of its own, is not among the inputs)
PathOfStr(s) == P(s # <<>> /\ s[1] = "/", DropDots(Split(s, "/")))

\* Path.expanduser(): a leading "~" component becomes the home directory
ExpandUser(p) ==
    IF ~p.abs /\ p.parts # <<>> /\ p.parts[1] = <<"~">>
    THEN P(TRUE, HomeDir \o Tail(p.parts)) ELSE p

\* expanduser() raises RuntimeError: "~name" for a user that does not exist
\* (the machine has no user whose home could be looked up)
TildeUser(p) ==
    ~p.abs /\ p.parts # <<>> /\ Len(p.parts[1]) > 1 /\ p.parts[1][1] = "~"

\* base / p
JoinPath(base, p) == IF p.abs THEN p ELSE P(base.abs, base.parts \o p.parts)

\* ".." components folded into their parents (at the root ".." stays there)
RECURSIVE FoldUp(_, _)
FoldUp(parts, acc) ==
    IF parts = <<>> THEN acc
    ELSE IF Head(parts) = <<".", ".">>
    THEN FoldUp(Tail(parts), IF acc = <<>> THEN acc ELSE SubSeq(acc, 1, Len(acc) - 1))
    ELSE FoldUp(Tail(parts), Append(acc, Head(parts)))

\* Path.resolve(): absolute, normalised
Resolve(p) == P(TRUE, FoldUp(IF p.abs THEN p.parts ELSE WorkDir \o p.parts, <<>>))

IsFile(p) == Resolve(p).parts \in FsFiles
IsDir(p) == Resolve(p).parts \in FsDirs
Exists(p) == IsFile(p) \/ IsDir(p)

\* Path.suffix: the last component from its last dot on ("" when the only
\* dot leads the name, or there is none)
Suffix(p) ==
    IF p.parts = <<>> THEN <<>>
    ELSE LET name == p.parts[Len(p.parts)]
             dots == {i \in 2..Len(name) : name[i] = "."}
         IN IF dots = {} \/ name[Len(name)] = "." THEN <<>>
            ELSE SubSeq(name, CHOOSE i \in dots : \A j \in dots : j <= i, Len(name))

\* validation.py _auto_fix_path
_auto_fix_path(val, format_spec, policy) ==
    IF val = None \/ policy = "bypass" THEN val
    ELSE
    LET p0 == IF val.k = "path" THEN val ELSE PathOfStr(val.s)
        expand_user == Truthy(Get(format_spec, "expand_user", B(TRUE)))
        p1 == IF expand_user THEN ExpandUser(p0) ELSE p0
        base == Get(format_spec, "base_path", None)
        p2 == IF Truthy(base) /\ ~p1.abs
              THEN JoinPath(ExpandUser(PathOfStr(base.s)), p1) ELSE p1
        p3 == IF Truthy(Get(format_spec, "resolve_path", B(TRUE))) THEN Resolve(p2) ELSE p2
        path_type == Get(format_spec, "path_type", "any")
        exts == Get(format_spec, "allowed_extensions", None)
    IN
    IF expand_user /\ TildeUser(p0) THEN Raised("Error")
    ELSE IF Truthy(base) /\ ~p1.abs /\ TildeUser(PathOfStr(base.s)) THEN Raised("Error")
    ELSE IF Truthy(Get(format_spec, "must_exist", B(FALSE)))
       /\ (\/ ~Exists(p3)
           \/ (path_type = "file" /\ ~IsFile(p3))
           \/ (path_type = "dir" /\ ~IsDir(p3)))
    THEN None
    ELSE IF Truthy(exts)
            /\ (Get(format_spec, "path_type", "none") \in {"file", "any"} \/ IsFile(p3))
            /\ ~\E i \in 1..Len(exts.xs) : Lower(exts.xs[i].s) = Lower(Suffix(p3))
    THEN None
    ELSE p3

\* ---------------------------------------------------------------- multiple ranges
RangeKeys == {"input_separator", "allow_single_value_as_range", "enforce_min_le_max",
              "min_item_value", "max_item_value", "item_type"}

\* "item_range_" + key
ItemRangeKey(key) ==
    CASE key = "input_separator" -> "item_range_input_separator"
      [] key = "allow_single_value_as_range" -> "item_range_allow_single_value_as_range"
      [] key = "enforce_min_le_max" -> "item_range_enforce_min_le_max"
      [] key = "min_item_value" -> "item_range_min_item_value"
      [] key = "max_item_value" -> "item_range_max_item_value"
      [] key = "item_type" -> "item_range_item_type"

\* the inner format: the item_range_* keys without their prefix, and
\* input_separator_range as the separator when none was given that way
ItemFmt(format_spec) ==
    LET keys == {key \in RangeKeys : ItemRangeKey(key) \in DOMAIN format_spec}
        fmt0 == [key \in keys |-> format_spec[ItemRangeKey(key)]]
    IN IF "input_separator" \notin keys /\ "input_separator_range" \in DOMAIN format_spec
       THEN fmt0 @@ ("input_separator" :> format_spec["input_separator_range"])
       ELSE fmt0

\* the loop over the items: the fixed ranges, and whether an item failed
\* under the reject policy (the early return None)
RECURSIVE MRLoop(_, _, _, _, _)
MRLoop(items, item_fmt, policy, item_policy, ranges) ==
    IF items = <<>> THEN [rejected |-> FALSE, ranges |-> ranges]
    ELSE LET fixed == _auto_fix_range(Head(items), item_fmt, item_policy) IN
         IF fixed = None
         THEN (IF policy = "reject" THEN [rejected |-> TRUE, ranges |-> ranges]
               ELSE MRLoop(Tail(items), item_fmt, policy, item_policy, ranges))
         ELSE MRLoop(Tail(items), item_fmt, policy, item_policy, Append(ranges, fixed))

\* whether Python orders the two values with < (numbers with numbers,
\* strings with strings; any other pairing met here raises TypeError)
Comparable(a, b) == (IsNumber(a) /\ IsNumber(b)) \/ (a.k = "str" /\ b.k = "str")

KeyLT(a, b) == IF a.k = "str" THEN StrLT(a.s, b.s) ELSE NumLT(a, b)

\* list.sort(key=lambda r: r[0]): a stable insertion sort by first element
RECURSIVE InsertByStart(_, _)
InsertByStart(r, sorted) ==
    IF sorted = <<>> THEN <<r>>
    ELSE IF KeyLT(r.xs[1], Head(sorted).xs[1]) THEN <<r>> \o sorted
    ELSE <<Head(sorted)>> \o InsertByStart(r, Tail(sorted))

RECURSIVE SortByStart(_)
SortByStart(ranges) ==
    IF ranges = <<>> THEN <<>>
    ELSE InsertByStart(ranges[Len(ranges)], SortByStart(SubSeq(ranges, 1, Len(ranges) - 1)))

\* the sort raises: an element without a first item (IndexError), or two
\* keys that cannot be ordered (TypeError)
SortRaises(ranges) ==
    \/ \E i \in 1..Len(ranges) : ranges[i].k \notin {"list", "tuple"} \/ ranges[i].xs = <<>>
    \/ \E i, j \in 1..Len(ranges) : i # j /\ ~Comparable(ranges[i].xs[1], ranges[j].xs[1])

Max2(a, b) == IF a > b THEN a ELSE b

\* max(a, b) and min(a, b) as Python picks them
PyMax(a, b) == IF KeyLT(a, b) THEN b ELSE a
PyMin(a, b) == IF KeyLT(b, a) THEN b ELSE a

\* the overlap test of one pair raises (IndexError or TypeError)
PairRaises(r, s) ==
    \/ r.k \notin {"list", "tuple"} \/ s.k \notin {"list", "tuple"}
    \/ Len(r.xs) < 2 \/ Len(s.xs) < 2
    \/ ~Comparable(r.xs[1], s.xs[1])
    \/ ~Comparable(r.xs[2], s.xs[2])
    \/ ~Comparable(PyMax(r.xs[1], s.xs[1]), PyMin(r.xs[2], s.xs[2]))

\* max(r[0], s[0]) < min(r[1], s[1])
PairOverlaps(r, s) == KeyLT(PyMax(r.xs[1], s.xs[1]), PyMin(r.xs[2], s.xs[2]))

\* the nested overlap loops from pair (i, j) on: "raise" when a pair's test
\* raises, "reject" when a pair overlaps under the reject policy, else "ok"
RECURSIVE OverlapScan(_, _, _, _)
OverlapScan(ranges, i, j, policy) ==
    IF i > Len(ranges) THEN "ok"
    ELSE IF j > Len(ranges) THEN OverlapScan(ranges, i + 1, i + 2, policy)
    ELSE IF PairRaises(ranges[i], ranges[j]) THEN "raise"
    ELSE IF PairOverlaps(ranges[i], ranges[j]) /\ policy = "reject" THEN "reject"
    ELSE OverlapScan(ranges, i, j + 1, policy)

\* lines 512-521: the items of the input
MRItems(val, sepl) ==
    IF val.k = "str" /\ Truthy(sepl) THEN NonEmptyStrs(Split(val.s, sepl.s[1]))
    ELSE IF val.k # "list" THEN <<val>>
    ELSE val.xs

\* lines 555-562 on the outcome of the overlap loops
MRScanned(scan, ranges) ==
    IF scan = "raise" THEN Raised("Error")
    ELSE IF scan = "reject" THEN None
    ELSE L(ranges)

\* lines 555-562
MROverlap(ranges, format_spec, policy) ==
    MRScanned(IF Truthy(Get(format_spec, "allow_overlapping_ranges", B(TRUE)))
              THEN "ok" ELSE OverlapScan(ranges, 1, 2, policy),
              ranges)

\* lines 552-562
MRSort(ranges, format_spec, policy) ==
    IF Truthy(Get(format_spec, "sort_ranges", None))
    THEN (IF SortRaises(ranges) THEN Raised("Error")
          ELSE MROverlap(SortByStart(ranges), format_spec, policy))
    ELSE MROverlap(ranges, format_spec, policy)

\* lines 541-550 and on, for the ranges the loop collected
MRCount(ranges, min_r, max_r, format_spec, policy) ==
    IF ranges = <<>> /\ policy = "reject" THEN None
    ELSE IF min_r # None /\ Len(ranges) < min_r.n /\ policy = "reject" THEN None
    ELSE MRSort(IF max_r # None /\ Len(ranges) > max_r.n
                THEN SubSeq(ranges, 1, max_r.n) ELSE ranges,
                format_spec, policy)

\* lines 532-562 on the outcome of the loop over the items
MRAfterLoop(loop, format_spec, policy) ==
    IF loop.rejected THEN None
    ELSE MRCount(loop.ranges, Get(format_spec, "min_ranges", None),
                 Get(format_spec, "max_ranges", None), format_spec, policy)

\* validation.py _auto_fix_multiple_ranges
_auto_fix_multiple_ranges(val, format_spec, policy, item_policy) ==
    IF val = None THEN val
    ELSE MRAfterLoop(MRLoop(MRItems(val, Get(format_spec, "input_separator_list", None)),
                            ItemFmt(format_spec), policy, item_policy, <<>>),
                     format_spec, policy)

\* ---------------------------------------------------------------- auto-fix pass
\* A model class is [fields, policies, eval_expressions, attached]: its
\* FieldInfo records in declaration order, the engine-level policies given
\* to attach_auto_fix, and whether attach_auto_fix decorates it at all.
\* A FieldInfo is [name, annotation, default, ge, gt, le, lt, min_length,
\* max_length, multiple_of, extra]; extra is json_schema_extra, a mapping
\* that may hold "options" (a sequence of values), "format_spec", "autofix"
\* (both mappings) and "editable" (a bool value).
PolicySets ==
    [numeric_policy |-> {"clamp", "reject", "bypass"},
     options_policy |-> {"nearest", "reject", "bypass"},
     range_policy |-> {"clamp_items", "reject", "reject_if_invalid_structure",
                       "swap_if_reversed", "bypass"},
     multiple_choice_policy |-> {"remove_invalid", "reject_if_any_invalid",
                                 "reject_if_count_invalid", "bypass"},
     list_conversion_policy |-> {"convert_or_reject", "convert_best_effort", "bypass"},
     boolean_policy |-> {"binary", "strict", "bypass"},
     path_policy |-> {"resolve", "bypass"},
     multiple_ranges_policy |-> {"reject", "bypass"}]

\* the defaults of attach_auto_fix's keyword arguments
DefaultPolicies ==
    [numeric_policy |-> "clamp", options_policy |-> "nearest",
     range_policy |-> "clamp_items", multiple_choice_policy |-> "remove_invalid",
     list_conversion_policy |-> "convert_or_reject", boolean_policy |-> "binary",
     path_policy |-> "resolve", multiple_ranges_policy |-> "reject"]

\* _field_meta_get(info, key)
_field_meta_get(info, key) == info[key]

\* the overrides of one field: extra.get("autofix") or {}
Overrides(info) == Get(info.extra, "autofix", <<>>)

\* the engine default alone, for comparison: a resolution that does not look
\* at the field's overrides
EnginePolicy(cls, info, name) == cls.policies[name]

\* overrides.get(name, engine default): the value the enum is built from
EffPolicy(cls, info, name) == Get(Overrides(info), name, cls.policies[name])

\* an enum constructor raises ValueError on a value outside its set
PolicyRaises(cls, info) ==
    \E name \in DOMAIN PolicySets : EffPolicy(cls, info, name) \notin PolicySets[name]

\* round(n / d) for d > 0: to the nearest integer, ties to the even one
RoundDiv(n, d) ==
    LET q == n \div d
        r == n - q * d
    IN IF 2 * r < d THEN q
       ELSE IF 2 * r > d THEN q + 1
       ELSE IF q % 2 = 0 THEN q ELSE q + 1

\* hasattr(val, "__len__") and len(val)
HasLen(val) == val.k \in {"str", "list", "tuple"}
LenOf(val) == IF val.k = "str" THEN Len(val.s) ELSE Len(val.xs)

\* lines 634-635 and 661
FmtOf(info) == Get(info.extra, "format_spec", <<>>)
FmtType(info) == Get(FmtOf(info), "type", "none")

\* lines 653-656
Low(info) ==
    IF _field_meta_get(info, "ge") # None THEN _field_meta_get(info, "ge")
    ELSE _field_meta_get(info, "gt")
High(info) ==
    IF _field_meta_get(info, "le") # None THEN _field_meta_get(info, "le")
    ELSE _field_meta_get(info, "lt")

IsRaised(x) == "k" \in DOMAIN x /\ x.k = "raise"

\* lines 661-680: the fixer of the field's format type
CategoryFix(cls, info, val) ==
    CASE FmtType(info) = "range" ->
             _auto_fix_range(val, FmtOf(info), EffPolicy(cls, info, "range_policy"))
      [] FmtType(info) = "multiple_choice" ->
             _auto_fix_multiple_choice(val, Get(info.extra, "options", <<>>), FmtOf(info),
                 EffPolicy(cls, info, "multiple_choice_policy"))
      [] FmtType(info) = "list_conversion" ->
             _auto_fix_list_conversion(val, FmtOf(info),
                 EffPolicy(cls, info, "list_conversion_policy"))
      [] FmtType(info) = "boolean_flexible" ->
             _auto_fix_boolean(val, FmtOf(info), EffPolicy(cls, info, "boolean_policy"))
      [] FmtType(info) = "path_string" ->
             _auto_fix_path(val, FmtOf(info), EffPolicy(cls, info, "path_policy"))
      [] FmtType(info) = "multiple_ranges" ->
             _auto_fix_multiple_ranges(val, FmtOf(info),
                 EffPolicy(cls, info, "multiple_ranges_policy"),
                 EffPolicy(cls, info, "range_policy"))
      [] OTHER -> val

\* lines 682-690 (an exception of the category fixer has left the loop)
NumericStep(cls, info, val) ==
    IF IsRaised(val) THEN val
    ELSE IF Low(info) # None \/ High(info) # None
            \/ _field_meta_get(info, "multiple_of") # None
    THEN _auto_fix_numeric(val, info, Low(info), High(info),
                           EffPolicy(cls, info, "numeric_policy"), cls.eval_expressions)
    ELSE val

\* lines 692-694
OptionsStep(cls, info, val) ==
    IF IsRaised(val) THEN val
    ELSE IF Get(info.extra, "options", <<>>) # <<>> /\ FmtType(info) # "multiple_choice"
    THEN _auto_fix_options(val, Get(info.extra, "options", <<>>),
                           EffPolicy(cls, info, "options_policy"))
    ELSE val

\* lines 696-698
MinLengthStep(val, m_len, eff_num) ==
    IF val # None /\ m_len # None /\ HasLen(val)
       /\ LenOf(val) < m_len.n /\ eff_num = "reject"
    THEN None ELSE val

\* lines 699-701
MaxLengthStep(val, M_len, eff_num) ==
    IF val # None /\ M_len # None /\ HasLen(val)
       /\ LenOf(val) > M_len.n /\ eff_num = "reject"
    THEN None ELSE val

\* lines 702-707
MultipleOfStep(val, mult_of, eff_num) ==
    IF val # None /\ mult_of # None /\ IsNumber(val)
       /\ (NumerOf(val) % (DenomOf(val) * mult_of.n)) # 0
    THEN (IF eff_num = "clamp"
          THEN I(RoundDiv(NumerOf(val), DenomOf(val) * mult_of.n) * mult_of.n)
          ELSE IF eff_num = "reject" THEN None
          ELSE val)
    ELSE val

\* the body of _auto's loop for one field present in the mapping: the value
\* after every fixer that applies, None when one of them rejected, Raised
\* when an enum constructor or a fixer raised
FixField(cls, info, val) ==
    IF PolicyRaises(cls, info) THEN Raised("ValueError")
    ELSE MultipleOfStep(
             MaxLengthStep(
                 MinLengthStep(
                     OptionsStep(cls, info, NumericStep(cls, info, CategoryFix(cls, info, val))),
                     _field_meta_get(info, "min_length"),
                     EffPolicy(cls, info, "numeric_policy")),
                 _field_meta_get(info, "max_length"),
                 EffPolicy(cls, info, "numeric_policy")),
             _field_meta_get(info, "multiple_of"),
             EffPolicy(cls, info, "numeric_policy"))

\* the FieldInfo of a class by name
FieldNames(cls) == {cls.fields[i].name : i \in 1..Len(cls.fields)}
FieldOf(cls, name) == cls.fields[CHOOSE i \in 1..Len(cls.fields) : cls.fields[i].name = name]

\* the fields of the mapping for which a fixer returned None
\* (val is None after the loop body, line 709)
Rejected(cls, raw) ==
    {f \in DOMAIN raw \cap FieldNames(cls) : FixField(cls, FieldOf(cls, f), raw[f]) = None}

\* lines 709-710: a fix of None leaves the mapping's value as it was
KeepRaw(fix, raw_val) == IF fix = None THEN raw_val ELSE fix

\* the mapping after the loop, a field that raised holding what it raised
AutoFields(cls, raw) ==
    [f \in DOMAIN raw |->
        IF f \in FieldNames(cls)
        THEN KeepRaw(FixField(cls, FieldOf(cls, f), raw[f]), raw[f])
        ELSE raw[f]]

\* the exception that leaves the loop: that of the first field, in
\* cls.model_fields order from the i-th on, that raised; None when none did
RECURSIVE FirstRaised(_, _, _)
FirstRaised(cls, fixed, i) ==
    IF i > Len(cls.fields) THEN None
    ELSE IF cls.fields[i].name \in DOMAIN fixed /\ IsRaised(fixed[cls.fields[i].name])
    THEN fixed[cls.fields[i].name]
    ELSE FirstRaised(cls, fixed, i + 1)

AutoResult(cls, fixed) ==
    IF FirstRaised(cls, fixed, 1) # None THEN FirstRaised(cls, fixed, 1) ELSE fixed

\* validation.py attach_auto_fix._auto on a mapping: every field present
\* gets its fixed value, a field whose fix is None keeps its raw value;
\* Raised when the pass raised
_auto(cls, raw) == AutoResult(cls, AutoFields(cls, raw))

\* ---------------------------------------------------------------- calls of the fixers
\* The fixers are pure functions.  SpecFix starts with the arguments of one
\* call in `call`, drawn from bounded sets, and its one step per fixer applies
\* the fixer and records the result in call.out.
Pending == [k |-> "pending"]

\* no ConfigInstance is constructed where only fixers are called
NoInstance == self = None /\ file = None /\ last = None /\ threads = <<>>
MaxLen == 3

\* the strings over an alphabet of at most n characters
StrsUpTo(alphabet, n) == UNION {[1..k -> alphabet] : k \in 0..n}

\* a format_spec entry that is present only when its value is given
Entry(key, v) == IF v = None THEN <<>> ELSE (key :> v)

\* the same for an entry whose value is one of format_spec's enumerated
\* strings ("" when the entry is absent)
EnumEntry(key, name) == IF name = "" THEN <<>> ELSE (key :> name)

\* --- range
RangeBounds == {None, I(0), I(1), I(10)}
RangeFmts ==
    {Entry("min_item_value", lo) @@ Entry("max_item_value", hi)
        @@ Entry("enforce_min_le_max", eo) @@ Entry("allow_single_value_as_range", single) :
        lo \in RangeBounds, hi \in RangeBounds, eo \in {None, B(FALSE)},
        single \in {None, B(TRUE)}}

RangeItems == {I(0 - 1), I(3), I(12), S(<<"3">>), S(<<"x">>), F(5, 2)}

RangeVals ==
    {S(s) : s \in StrsUpTo({"1", "2", "-"}, MaxLen)}
        \cup {S(<<"1", "2", "-", "3">>), S(<<" ", "5", " ", "-", "2">>),
              S(<<"5", "-", "2", "-", "3">>), I(5), None}
        \cup {L(<<a, b>>) : a \in RangeItems, b \in RangeItems}
        \cup {T(<<I(3), I(1)>>), T(<<I(12), I(3), I(1)>>)}

InitRange ==
    \E val \in RangeVals, format_spec \in RangeFmts, policy \in PolicySets.range_policy :
        call = [fn |-> "range", val |-> val, format_spec |-> format_spec, policy |-> policy,
                out |-> Pending]

CallRange ==
    /\ call.fn = "range" /\ call.out = Pending
    /\ call' = [call EXCEPT !.out = _auto_fix_range(call.val, call.format_spec, call.policy)]
    /\ UNCHANGED <<self, file, last, threads>>

\* --- multiple choice
Flat == S(<<"f", "l", "a", "t">>)
Ball == S(<<"b", "a", "l", "l">>)
Foo == S(<<"f", "o", "o">>)
Vbit == S(<<"v", "b", "i", "t">>)

MCOpts == {<<Flat, Ball>>, <<S(<<"a">>), S(<<"b">>)>>}
MCFmts ==
    {Entry("input_separator", sep) @@ Entry("allow_duplicates", dup)
        @@ Entry("min_selections", lo) @@ Entry("max_selections", hi) :
        sep \in {None, S(<<",">>)}, dup \in {None, B(TRUE)},
        lo \in {None, I(2)}, hi \in {None, I(1)}}

MCVals ==
    {S(s) : s \in StrsUpTo({"a", "b", ","}, MaxLen)}
        \cup {S(<<"f", "l", "a", "t", ",", "b", "a", "l", "l", ",", "f", "o", "o", ",",
                  "f", "l", "a", "t">>),
              S(<<"f", "l", "a", "t", ",", "f", "o", "o">>), S(<<" ", "a", " ", ",", "b">>),
              L(<<Ball, Foo, Flat, Ball>>), L(<<S(<<"b">>), S(<<"a">>), S(<<"b">>)>>),
              L(<<>>), I(5), None}

InitMultipleChoice ==
    \E val \in MCVals, opts \in MCOpts, format_spec \in MCFmts, policy \in PolicySets.multiple_choice_policy :
        call = [fn |-> "multiple_choice", val |-> val, opts |-> opts, format_spec |-> format_spec,
                policy |-> policy, out |-> Pending]

CallMultipleChoice ==
    /\ call.fn = "multiple_choice" /\ call.out = Pending
    /\ call' = [call EXCEPT !.out = _auto_fix_multiple_choice(call.val, call.opts,
                                         call.format_spec, call.policy)]
    /\ UNCHANGED <<self, file, last, threads>>

\* --- numeric
NumericLows == {None, I(0), I(4000)}
NumericHighs == {None, I(10)}

NumericVals ==
    {S(s) : s \in StrsUpTo({"1", "5", "*", "-", "v"}, MaxLen)}
        \cup {S(<<"5", "*", "2">>), S(<<"2", "+", "3">>), S(<<"1", "0">>), S(<<"4">>),
              S(<<"m", "a", "x">>), S(<<"m", "i", "n", "+", "1">>), S(<<"/", "2">>),
              S(<<"5", "/", "2">>), S(<<"2", "^", "3">>), S(<<" ", "7">>),
              S(<<"5", "0", "0", "0">>), S(<<"f", "o", "o">>)}
        \cup {I(n) : n \in {0 - 1, 0, 1, 5, 10, 11, 3999, 4000, 100000}}
        \cup {F(5, 2), F(21, 2), B(TRUE), None}

InitNumeric ==
    \E val \in NumericVals, low \in NumericLows, high \in NumericHighs, policy \in PolicySets.numeric_policy, eval_allowed \in BOOLEAN :
        call = [fn |-> "numeric", val |-> val, low |-> low, high |-> high, policy |-> policy,
                eval_allowed |-> eval_allowed, out |-> Pending]

CallNumeric ==
    /\ call.fn = "numeric" /\ call.out = Pending
    /\ call' = [call EXCEPT !.out = _auto_fix_numeric(call.val, <<>>, call.low, call.high,
                                         call.policy, call.eval_allowed)]
    /\ UNCHANGED <<self, file, last, threads>>

\* --- options
OptionsOpts == {<<Flat, Ball>>, <<Flat, Ball, Vbit>>}

OptionsVals ==
    {S(s) : s \in StrsUpTo({"a", "b", "l"}, MaxLen)}
        \cup {Flat, Ball, Foo, S(<<"f", "a", "l", "t">>), S(<<"v", "b">>), I(5), None}

InitOptions ==
    \E val \in OptionsVals, opts \in OptionsOpts, policy \in PolicySets.options_policy :
        call = [fn |-> "options", val |-> val, opts |-> opts, policy |-> policy, out |-> Pending]

CallOptions ==
    /\ call.fn = "options" /\ call.out = Pending
    /\ call' = [call EXCEPT !.out = _auto_fix_options(call.val, call.opts, call.policy)]
    /\ UNCHANGED <<self, file, last, threads>>

\* --- list conversion
LCFmts ==
    {Entry("input_is_string", is_string) @@ EnumEntry("item_type", item_type)
        @@ Entry("allow_duplicates", dup) @@ Entry("min_items", lo)
        @@ Entry("max_items", hi) :
        is_string \in {None, B(TRUE)}, item_type \in {"", "bool", "str"},
        dup \in {None, B(FALSE)}, lo \in {None, I(2)}, hi \in {None, I(1)}}

LCVals ==
    {S(s) : s \in StrsUpTo({"1", "2", ","}, MaxLen)}
        \cup {S(<<"1", ",", " ", "x", ",", " ", "2", ",", " ", "2">>),
              S(<<"1", ",", " ", "x">>), S(<<"2", ",", "3", ",", "4">>),
              L(<<I(1), I(2)>>), L(<<S(<<"1">>), S(<<"x">>)>>), L(<<I(2), I(2)>>),
              L(<<B(TRUE), S(<<"n", "o">>)>>), I(5), B(TRUE), None}

InitListConversion ==
    \E val \in LCVals, format_spec \in LCFmts, policy \in PolicySets.list_conversion_policy :
        call = [fn |-> "list_conversion", val |-> val, format_spec |-> format_spec,
                policy |-> policy, out |-> Pending]

CallListConversion ==
    /\ call.fn = "list_conversion" /\ call.out = Pending
    /\ call' = [call EXCEPT !.out = _auto_fix_list_conversion(call.val, call.format_spec,
                                         call.policy)]
    /\ UNCHANGED <<self, file, last, threads>>

\* --- boolean
BoolFmts ==
    {<<>>, [true_values |-> L(<<S(<<"o">>), I(2)>>), false_values |-> L(<<S(<<"N">>)>>)]}

BoolVals ==
    {S(s) : s \in StrsUpTo({"y", "n", "o"}, MaxLen)}
        \cup {S(<<"t", "r", "u", "e">>), S(<<"f", "a", "l", "s", "e">>),
              S(<<"m", "a", "y", "b", "e">>), S(<<"1">>), S(<<"0">>), S(<<"O", "N">>),
              I(0), I(1), I(2), B(TRUE), B(FALSE), None}

InitBoolean ==
    \E val \in BoolVals, format_spec \in BoolFmts, policy \in PolicySets.boolean_policy :
        call = [fn |-> "boolean", val |-> val, format_spec |-> format_spec, policy |-> policy,
                out |-> Pending]

CallBoolean ==
    /\ call.fn = "boolean" /\ call.out = Pending
    /\ call' = [call EXCEPT !.out = _auto_fix_boolean(call.val, call.format_spec,
                                         call.policy)]
    /\ UNCHANGED <<self, file, last, threads>>

\* --- path
PathFmts ==
    {Entry("expand_user", eu) @@ Entry("base_path", base) @@ Entry("resolve_path", rp)
        @@ Entry("must_exist", me) @@ EnumEntry("path_type", pt)
        @@ Entry("allowed_extensions", exts) :
        eu \in {None, B(FALSE)}, base \in {None, S(<<"c">>), S(<<"/", "h">>)},
        rp \in {None, B(FALSE)}, me \in {None, B(TRUE)}, pt \in {"", "file", "dir"},
        exts \in {None, L(<<S(<<".", "T">>)>>)}}

\* a string starting with exactly two slashes is left out (see PathOfStr)
PathVals ==
    {S(s) : s \in {x \in StrsUpTo({"a", ".", "/"}, MaxLen) :
                       ~(Len(x) >= 2 /\ x[1] = "/" /\ x[2] = "/"
                         /\ (Len(x) = 2 \/ x[3] # "/"))}}
        \cup {S(<<"a", ".", "t">>), S(<<"c", "/", "a", ".", "t">>),
              S(<<"~", "/", "a", ".", "t">>), S(<<"~", "t">>),
              S(<<"/", "w", "/", "c", "/", ".", ".", "/", "a", ".", "t">>),
              P(FALSE, <<<<"a", ".", "t">>>>), P(TRUE, <<<<"w">>, <<"c">>>>), None}

InitPath ==
    \E val \in PathVals, format_spec \in PathFmts, policy \in PolicySets.path_policy :
        call = [fn |-> "path", val |-> val, format_spec |-> format_spec, policy |-> policy,
                out |-> Pending]

CallPath ==
    /\ call.fn = "path" /\ call.out = Pending
    /\ call' = [call EXCEPT !.out = _auto_fix_path(call.val, call.format_spec, call.policy)]
    /\ UNCHANGED <<self, file, last, threads>>

\* --- multiple ranges
MRFmts ==
    {Entry("input_separator_list", sepl) @@ Entry("sort_ranges", sort)
        @@ Entry("allow_overlapping_ranges", overlap) @@ Entry("min_ranges", lo)
        @@ Entry("max_ranges", hi) @@ Entry("item_range_max_item_value", item_max) :
        sepl \in {None, S(<<";">>)}, sort \in {None, B(TRUE)},
        overlap \in {None, B(FALSE)}, lo \in {None, I(2)}, hi \in {None, I(1)},
        item_max \in {None, I(1)}}

MRVals ==
    {S(s) : s \in StrsUpTo({"1", "2", "-", ";"}, MaxLen)}
        \cup {S(<<"1", "-", "2", ";", "b", "a", "d">>),
              S(<<"3", "-", "4", ";", "1", "-", "2", ";", "5", "-", "6">>),
              S(<<"1", "-", "3", ";", "2", "-", "4">>), S(<<"2", "-", "1", ";", "1", "-", "1">>),
              L(<<T(<<I(3), I(4)>>), T(<<I(1), I(2)>>)>>), L(<<S(<<"2", "-", "1">>), None>>),
              T(<<I(1), I(2)>>), L(<<>>), None}

InitMultipleRanges ==
    \E val \in MRVals, format_spec \in MRFmts, policy \in PolicySets.multiple_ranges_policy, item_policy \in PolicySets.range_policy :
        call = [fn |-> "multiple_ranges", val |-> val, format_spec |-> format_spec,
                policy |-> policy, item_policy |-> item_policy, out |-> Pending]

CallMultipleRanges ==
    /\ call.fn = "multiple_ranges" /\ call.out = Pending
    /\ call' = [call EXCEPT !.out = _auto_fix_multiple_ranges(call.val, call.format_spec,
                                         call.policy, call.item_policy)]
    /\ UNCHANGED <<self, file, last, threads>>

FixInit ==
    /\ NoInstance
    /\ \/ InitRange
       \/ InitMultipleChoice
       \/ InitNumeric
       \/ InitOptions
       \/ InitListConversion
       \/ InitBoolean
       \/ InitPath
       \/ InitMultipleRanges

FixNext ==
    \/ CallRange
    \/ CallMultipleChoice
    \/ CallNumeric
    \/ CallOptions
    \/ CallListConversion
    \/ CallBoolean
    \/ CallPath
    \/ CallMultipleRanges

SpecFix == FixInit /\ [][FixNext]_vars

\* ---------------------------------------------------------------- schema classes
\* pydantic's FieldInfo of a field declared without constraints
Field(name, annotation, default, extra) ==
    [name |-> name, annotation |-> annotation, default |-> default,
     ge |-> None, gt |-> None, le |-> None, lt |-> None,
     min_length |-> None, max_length |-> None, multiple_of |-> None, extra |-> extra]

\* a settings class that attach_auto_fix does not decorate
Model(name, fields) ==
    [name |-> name, fields |-> fields, policies |-> DefaultPolicies,
     eval_expressions |-> TRUE, attached |-> FALSE]

\* validation.py attach_auto_fix: the class with the pass attached
attach_auto_fix(cls, policies, eval_expressions) ==
    [cls EXCEPT !.policies = policies, !.eval_expressions = eval_expressions,
                !.attached = TRUE]

\* the keyword arguments of attach_auto_fix with one policy given
Policies(name, policy) == [DefaultPolicies EXCEPT ![name] = policy]

\* json_schema_extra holding a format_spec of the given type
FormatSpec(type, format_spec) == "format_spec" :> (("type" :> type) @@ format_spec)

\* json_schema_extra holding a field's options
Options(opts) == "options" :> opts

\* test_validation.py NumCfg, NumRejectCfg, NumBypassCfg: one int field, its
\* bounds low and high (None for a bound that is not declared)
NumCfg(low, high, policy, eval_expressions) ==
    attach_auto_fix(
        Model("NumCfg", <<[Field("val", "int", I(1), <<>>) EXCEPT !.ge = low, !.le = high]>>),
        Policies("numeric_policy", policy), eval_expressions)

\* an int field with bounds and multiple_of
MultCfg(policy) ==
    attach_auto_fix(
        Model("MultCfg", <<[Field("val", "int", I(0), <<>>)
                               EXCEPT !.ge = I(0), !.le = I(10), !.multiple_of = I(4)]>>),
        Policies("numeric_policy", policy), TRUE)

\* an int field with exclusive (gt, lt) or inclusive (ge, le) bounds and
\* multiple_of, each None when it is not declared
BoundCfg(exclusive, low, high, multiple_of, policy) ==
    attach_auto_fix(
        Model("BoundCfg",
              <<IF exclusive
                THEN [Field("val", "int", I(4), <<>>)
                         EXCEPT !.gt = low, !.lt = high, !.multiple_of = multiple_of]
                ELSE [Field("val", "int", I(4), <<>>)
                         EXCEPT !.ge = low, !.le = high, !.multiple_of = multiple_of]>>),
        Policies("numeric_policy", policy), TRUE)

\* test_validation.py OptCfg, OptRejectCfg, OptBypassCfg
OptCfg(opts, policy) ==
    attach_auto_fix(Model("OptCfg", <<Field("tool", "str", Flat, Options(opts))>>),
                    Policies("options_policy", policy), TRUE)

\* test_validation.py RangeCfg and the Range*Cfg classes
RangeCfg(format_spec, policy) ==
    attach_auto_fix(
        Model("RangeCfg", <<Field("span", "tuple[int, int]", T(<<I(0), I(1)>>),
                                  FormatSpec("range", format_spec))>>),
        Policies("range_policy", policy), TRUE)

\* test_validation.py MCRemoveCfg and the MC*Cfg classes
MCCfg(opts, format_spec, policy) ==
    attach_auto_fix(
        Model("MCCfg", <<Field("tools", "list[str]", L(<<opts[1]>>),
                               Options(opts) @@ FormatSpec("multiple_choice", format_spec))>>),
        Policies("multiple_choice_policy", policy), TRUE)

\* test_validation.py ListCfg, LCBestEffortCfg, LCBypassCfg
ListCfg(format_spec, policy) ==
    attach_auto_fix(
        Model("ListCfg", <<Field("items", "list[int]", L(<<I(1)>>),
                                 FormatSpec("list_conversion", format_spec))>>),
        Policies("list_conversion_policy", policy), TRUE)

\* test_validation.py BoolCfg, BoolStrictCfg, BoolBypassCfg
BoolCfg(format_spec, policy) ==
    attach_auto_fix(
        Model("BoolCfg", <<Field("flag", "bool", B(FALSE),
                                 FormatSpec("boolean_flexible", format_spec))>>),
        Policies("boolean_policy", policy), TRUE)

\* test_validation.py PathCfg, PathBypassCfg
PathCfg(format_spec, policy) ==
    attach_auto_fix(
        Model("PathCfg", <<Field("out", "Path", S(<<"a", ".", "t">>),
                                 FormatSpec("path_string", format_spec))>>),
        Policies("path_policy", policy), TRUE)

\* test_validation.py MultiRangeCfg, MRBypassCfg, MROptsCfg
MultiRangeCfg(format_spec, policy, item_policy) ==
    attach_auto_fix(
        Model("MultiRangeCfg", <<Field("ranges", "list[tuple[int, int]]",
                                       L(<<T(<<I(0), I(1)>>)>>),
                                       FormatSpec("multiple_ranges", format_spec))>>),
        [DefaultPolicies EXCEPT !.multiple_ranges_policy = policy,
                                !.range_policy = item_policy], TRUE)

\* a class of two fields, the second with a per-field override of its policy
TwoCfg(policy, override) ==
    attach_auto_fix(
        Model("TwoCfg",
              <<[Field("val", "int", I(1), <<>>) EXCEPT !.ge = I(0), !.le = I(10)],
                Field("tool", "str", Flat,
                      Options(<<Flat, Ball, Vbit>>)
                          @@ ("autofix" :> ("options_policy" :> override)))>>),
        Policies("numeric_policy", policy), TRUE)

\* ---------------------------------------------------------------- the pass, twice
\* SpecAuto starts with a class and a raw mapping in `call`; its first step
\* runs the pass on the mapping, its second runs the pass on what the first
\* returned.
AutoCall(cls, raw) ==
    [fn |-> "auto", cls |-> cls, raw |-> raw, out |-> Pending, again |-> Pending]

TwoVals == {I(5), I(11), S(<<"f", "o", "o">>), S(<<"f", "a", "l", "t">>)}

\* the bounds of BoundCfg
BoundLows == {None, I(0), I(1)}
BoundHighs == {None, I(6), I(10)}

AutoInit ==
    /\ NoInstance
    /\ \/ \E val \in NumericVals, low \in NumericLows, high \in NumericHighs,
             policy \in PolicySets.numeric_policy, eval_expressions \in BOOLEAN :
              call = AutoCall(NumCfg(low, high, policy, eval_expressions), [val |-> val])
       \/ \E val \in NumericVals, policy \in PolicySets.numeric_policy :
              call = AutoCall(MultCfg(policy), [val |-> val])
       \/ \E val \in OptionsVals, opts \in OptionsOpts, policy \in PolicySets.options_policy :
              call = AutoCall(OptCfg(opts, policy), [tool |-> val])
       \/ \E val \in RangeVals, format_spec \in RangeFmts, policy \in PolicySets.range_policy :
              call = AutoCall(RangeCfg(format_spec, policy), [span |-> val])
       \/ \E val \in MCVals, opts \in MCOpts, format_spec \in MCFmts,
             policy \in PolicySets.multiple_choice_policy :
              call = AutoCall(MCCfg(opts, format_spec, policy), [tools |-> val])
       \/ \E val \in LCVals, format_spec \in LCFmts, policy \in PolicySets.list_conversion_policy :
              call = AutoCall(ListCfg(format_spec, policy), [items |-> val])
       \/ \E val \in BoolVals, format_spec \in BoolFmts, policy \in PolicySets.boolean_policy :
              call = AutoCall(BoolCfg(format_spec, policy), [flag |-> val])
       \/ \E val \in PathVals, format_spec \in PathFmts, policy \in PolicySets.path_policy :
              call = AutoCall(PathCfg(format_spec, policy), [out |-> val])
       \/ \E val \in MRVals, format_spec \in MRFmts,
             policy \in PolicySets.multiple_ranges_policy, item_policy \in PolicySets.range_policy :
              call = AutoCall(MultiRangeCfg(format_spec, policy, item_policy), [ranges |-> val])
       \/ \E val \in NumericVals, exclusive \in BOOLEAN, low \in BoundLows,
             high \in BoundHighs, multiple_of \in {None, I(4)},
             policy \in PolicySets.numeric_policy :
              call = AutoCall(BoundCfg(exclusive, low, high, multiple_of, policy), [val |-> val])
       \/ \E policy \in PolicySets.numeric_policy,
             override \in PolicySets.options_policy \cup {"snap"},
             names \in SUBSET {"val", "tool", "other"} :
              \E raw \in [names -> TwoVals] : call = AutoCall(TwoCfg(policy, override), raw)

\* the pass on the raw mapping
AutoPass ==
    /\ call.fn = "auto" /\ call.out = Pending
    /\ call' = [call EXCEPT !.out = _auto(call.cls, call.raw)]
    /\ UNCHANGED <<self, file, last, threads>>

\* the pass on the mapping the first pass returned
AutoAgain ==
    /\ call.fn = "auto" /\ call.out # Pending /\ ~IsRaised(call.out)
    /\ call.again = Pending
    /\ call' = [call EXCEPT !.again = _auto(call.cls, call.out)]
    /\ UNCHANGED <<self, file, last, threads>>

AutoNext ==
    \/ AutoPass
    \/ AutoAgain

SpecAuto == AutoInit /\ [][AutoNext]_vars


\* ---------------------------------------------------------------- structural validation
\* pydantic's validation of the mapping the pass hands on, for the
\* annotations int, str and tuple[int, int] (lax mode).  The strings that
\* reach an int here hold no whitespace, "_" or ".".
Invalid == [k |-> "invalid"]

\* an int from an int, a bool, a float without fraction or a string of an int
IntLax(val) ==
    CASE val.k = "int" -> val
      [] val.k = "bool" -> I(NumOf(val))
      [] val.k = "float" -> IF val.den = 1 THEN I(val.num) ELSE None
      [] val.k = "str" -> IF IntParses(val.s) THEN I(IntParse(val.s)) ELSE None
      [] OTHER -> None

\* the constraints of the field's metadata on an int
ConstraintsHold(info, n) ==
    /\ info.ge = None \/ n >= info.ge.n
    /\ info.gt = None \/ n > info.gt.n
    /\ info.le = None \/ n =< info.le.n
    /\ info.lt = None \/ n < info.lt.n
    /\ info.multiple_of = None \/ n % info.multiple_of.n = 0

IntField(info, v) ==
    IF v = None THEN Invalid ELSE IF ConstraintsHold(info, v.n) THEN v ELSE Invalid

\* a str field takes a str only
StrField(info, val) ==
    IF /\ val.k = "str"
       /\ info.min_length = None \/ Len(val.s) >= info.min_length.n
       /\ info.max_length = None \/ Len(val.s) =< info.max_length.n
    THEN val ELSE Invalid

\* a tuple[int, int] field takes a list or tuple of two ints
TupleField(val) ==
    IF val.k \in {"list", "tuple"} /\ Len(val.xs) = 2
       /\ IntLax(val.xs[1]) # None /\ IntLax(val.xs[2]) # None
    THEN T(<<IntLax(val.xs[1]), IntLax(val.xs[2])>>) ELSE Invalid

ValidateField(info, val) ==
    CASE info.annotation = "int" -> IntField(info, IntLax(val))
      [] info.annotation = "str" -> StrField(info, val)
      [] info.annotation = "tuple[int, int]" -> TupleField(val)

\* ValidationError when a field did not validate
Validated(m) ==
    IF \E f \in DOMAIN m : m[f] = Invalid THEN Raised("ValidationError") ELSE m

\* validation of what the before-validator returned or raised: a ValueError
\* of the validator becomes a ValidationError, any other exception passes;
\* a field absent from the mapping takes its default, a key that is no
\* field is refused
ValidateAll(cls, fixed) ==
    IF IsRaised(fixed)
    THEN (IF fixed.exc = "ValueError" THEN Raised("ValidationError") ELSE fixed)
    ELSE IF ~(DOMAIN fixed \subseteq FieldNames(cls)) THEN Raised("ValidationError")
    ELSE Validated([f \in FieldNames(cls) |->
                       IF f \in DOMAIN fixed
                       THEN ValidateField(FieldOf(cls, f), fixed[f])
                       ELSE FieldOf(cls, f).default])

\* cls(**data): the instance as a mapping of every field, or what was raised
Construct(cls, data) == ValidateAll(cls, IF cls.attached THEN _auto(cls, data) ELSE data)

\* cls(): every field at its default
Defaults(cls) == [f \in FieldNames(cls) |-> FieldOf(cls, f).default]

\* ---------------------------------------------------------------- ConfigInstance
\* self is [_model_cls, _save_path, _auto_save, _defaults, _active, _aliased];
\* a path is one key (no "/"), an instance is the mapping model_dump
\* returns, and _aliased tells that _active is the very object _defaults is.
\* The methods are operators from self to [self, outcome]: the object after
\* the call, and "ok" or the name of the exception that left it.
Result(obj, outcome) == [self |-> obj, outcome |-> outcome]

\* self._active = <an object made for the assignment>
Assign(obj, instance) == [obj EXCEPT !._active = instance, !._aliased = FALSE]

\* the except clause left out: the exception passes as it is
ReraisedAsIs(exc) == exc

\* the exception the caller of a construction inside try/except
\* ValidationError sees (manager2.py 150-151)
Reraised(exc) == IF exc = "ValidationError" THEN "ValueError" ELSE exc

\* manager2.py _deep_set on a model instance and a path of one key
_deep_set(cls, data, head, value) ==
    IF head \notin DOMAIN data THEN Raised("KeyError")
    ELSE Construct(cls, [data EXCEPT ![head] = value])

\* manager2.py _extract_constraints
_extract_constraints(info) ==
    Entry("ge", info.ge) @@ Entry("gt", info.gt) @@ Entry("le", info.le)
        @@ Entry("lt", info.lt) @@ Entry("min_length", info.min_length)
        @@ Entry("max_length", info.max_length)

\* manager2.py get_metadata, lines 178-188: md after md.update(...)
Consolidated(info) ==
    ("type" :> info.annotation) @@ ("required" :> B(FALSE)) @@ ("default" :> info.default)
        @@ ("editable" :> Get(info.extra, "editable", B(TRUE)))
        @@ _extract_constraints(info) @@ info.extra

get_metadata(cls, path) == Consolidated(FieldOf(cls, path))

\* the class after get_metadata: md is the field's json_schema_extra itself
\* when that is not empty, and md.update writes into it
MetadataWritten(cls, path) ==
    [cls EXCEPT !.fields =
        [i \in 1..Len(cls.fields) |->
            IF cls.fields[i].name = path /\ cls.fields[i].extra # <<>>
            THEN [cls.fields[i] EXCEPT !.extra = Consolidated(cls.fields[i])]
            ELSE cls.fields[i]]]

\* manager2.py save, lines 233-235 (the definition the class keeps): the
\* assignment; the call of self.save() that follows never returns, it ends
\* in RecursionError.  The one caller that gives an object (line 229) gives
\* self._defaults itself.
save(obj, given) ==
    IF given # None THEN [obj EXCEPT !._active = given, !._aliased = TRUE] ELSE obj

\* lines 149-154 on the instance line 149 constructed
SetAssigned(obj, validated) ==
    IF IsRaised(validated) THEN Result(obj, Reraised(validated.exc))
    ELSE IF obj._auto_save
    THEN Result(save(Assign(obj, validated), None), "RecursionError")
    ELSE Result(Assign(obj, validated), "ok")

\* lines 145-154 on what _deep_set returned
SetChecked(obj, path, new_instance) ==
    IF IsRaised(new_instance) THEN Result(obj, Reraised(new_instance.exc))
    ELSE IF get_metadata(obj._model_cls, path).editable = B(FALSE)
    THEN Result([obj EXCEPT !._model_cls = MetadataWritten(obj._model_cls, path)],
                "PermissionError")
    ELSE SetAssigned([obj EXCEPT !._model_cls = MetadataWritten(obj._model_cls, path)],
                     Construct(obj._model_cls, new_instance))

\* manager2.py ConfigInstance.set_value
set_value(obj, path, value) ==
    SetChecked(obj, path, _deep_set(obj._model_cls, obj._active, path, value))

\* the file at _save_path: Missing, a mapping, or text that is no document
Missing == [k |-> "missing"]
Garbage == [k |-> "garbage"]

\* lines 216-230 on what loading and constructing gave
Loaded(obj, loaded) ==
    IF IsRaised(loaded)
    THEN (IF loaded.exc \in {"ValidationError", "ValueError", "TypeError"}
          THEN [self |-> obj, result |-> obj._defaults]
          ELSE [self |-> obj, result |-> loaded])
    ELSE [self |-> obj, result |-> loaded]

\* the file's mapping returned as it was read, not constructed
_load_unvalidated(obj, on_disk) ==
    IF obj._save_path # None /\ on_disk \notin {Missing, Garbage}
    THEN [self |-> obj, result |-> on_disk]
    ELSE [self |-> obj, result |-> obj._defaults]

\* manager2.py _load_or_defaults: [self, result], the result an instance or
\* what was raised
_load_or_defaults(obj, on_disk) ==
    IF obj._save_path # None /\ on_disk # Missing
    THEN Loaded(obj, IF on_disk = Garbage THEN Raised("ValueError")
                     ELSE Construct(obj._model_cls, on_disk))
    ELSE IF obj._save_path # None
    THEN [self |-> save(obj, obj._defaults), result |-> Raised("RecursionError")]
    ELSE [self |-> obj, result |-> obj._defaults]

\* lines 161-165 on what _load_or_defaults returned
RestoreFromFile(path, loaded) ==
    IF IsRaised(loaded.result) THEN Result(loaded.self, loaded.result.exc)
    ELSE IF path \notin DOMAIN loaded.result THEN Result(loaded.self, "AttributeError")
    ELSE set_value(loaded.self, path, loaded.result[path])

\* manager2.py ConfigInstance.restore_value
restore_value(obj, on_disk, path, source) ==
    IF source = "default"
    THEN (IF path \notin DOMAIN obj._defaults THEN Result(obj, "AttributeError")
          ELSE set_value(obj, path, obj._defaults[path]))
    ELSE IF source = "file" THEN RestoreFromFile(path, _load_or_defaults(obj, on_disk))
    ELSE Result(obj, "ValueError")

\* manager2.py ConfigInstance.restore_defaults
restore_defaults(obj) ==
    IF obj._auto_save
    THEN Result(save(Assign(obj, obj._defaults), None), "RecursionError")
    ELSE Result(Assign(obj, obj._defaults), "ok")

\* ConfigInstance._load_from_disk, which watchers.py calls: the instance
\* the file validates to, None when there is no file or it does not validate
NoneIfRaised(loaded) == IF IsRaised(loaded) THEN None ELSE loaded

_load_from_disk(obj, on_disk) ==
    IF obj._save_path = None \/ on_disk \in {Missing, Garbage} THEN None
    ELSE NoneIfRaised(Construct(obj._model_cls, on_disk))

\* watchers.py _reload_config_instance on what the attempts loaded (the
\* file does not change between the attempts of one reload)
Reloaded(obj, on_disk, loaded_instance) ==
    IF loaded_instance # None THEN Assign(obj, loaded_instance)
    ELSE IF obj._save_path # None /\ on_disk = Missing
    THEN Assign(obj, obj._defaults)
    ELSE obj

_reload_config_instance(obj, on_disk) == Reloaded(obj, on_disk, _load_from_disk(obj, on_disk))

\* ---------------------------------------------------------------- the instance
\* test_extra.py ProtectCfg
ProtectCfg == Model("ProtectCfg", <<Field("secret", "int", I(1), "editable" :> B(FALSE))>>)

\* test_basic.py SimpleCfg
SimpleCfg ==
    Model("SimpleCfg", <<Field("foo", "int", I(1), <<>>), Field("bar", "str", S(<<"x">>), <<>>)>>)

\* the format_spec of test_validation.py RangeCfg
TestRangeFmt ==
    [input_separator |-> S(<<"-">>), min_item_value |-> I(0), max_item_value |-> I(10)]

\* the classes instances are made of
ClassNames ==
    {"NumRejectCfg", "OptRejectCfg", "OptBypassCfg", "RangeRejectCfg", "ProtectCfg",
     "SimpleCfg", "TwoCfg"}

ClassOf(name) ==
    CASE name = "NumRejectCfg" -> NumCfg(I(0), I(5), "reject", TRUE)
      [] name = "OptRejectCfg" -> OptCfg(<<Flat, Ball>>, "reject")
      [] name = "OptBypassCfg" -> OptCfg(<<Flat, Ball>>, "bypass")
      [] name = "RangeRejectCfg" -> RangeCfg(TestRangeFmt, "reject")
      [] name = "ProtectCfg" -> ProtectCfg
      [] name = "SimpleCfg" -> SimpleCfg
      [] name = "TwoCfg" -> TwoCfg("reject", "reject")

\* manager2.py ConfigInstance.__init__, lines 114-120: the object before
\* _load_or_defaults runs
New(cls, save_path, auto_save) ==
    [_model_cls |-> cls, _save_path |-> save_path, _auto_save |-> auto_save,
     _defaults |-> Defaults(cls), _active |-> None, _aliased |-> FALSE]

\* line 121 on what _load_or_defaults returned: no object when it raised
InitLoaded(loaded) ==
    IF IsRaised(loaded.result) THEN Result(None, loaded.result.exc)
    ELSE Result(Assign(loaded.self, loaded.result), "ok")

__init__(cls, save_path, auto_save, on_disk) ==
    InitLoaded(_load_or_defaults(New(cls, save_path, auto_save), on_disk))

\* the values callers set
SetVals == {I(5), I(20), Foo, Flat, T(<<I(2), I(5)>>)}

\* what the file at the save path holds: nothing, text that is no document,
\* or a mapping
FileMaps ==
    {[val |-> I(5)], [val |-> I(20)], [tool |-> Foo], [span |-> L(<<I(2), I(5)>>)],
     [secret |-> I(5)], [foo |-> I(5)], [val |-> S(<<"5">>), tool |-> Ball],
     [other |-> I(5)]}

\* the mappings a file of the class holds: of its fields, or of a key that
\* is no field of any class
MapsOf(cls) == {m \in FileMaps : DOMAIN m \subseteq FieldNames(cls) \cup {"other"}}

Sources == {"default", "file", "other"}
SavePath == S(<<"/", "w", "/", "a", ".", "t">>)

\* the paths callers name: the fields and a key that is no field
Paths == FieldNames(self._model_cls) \cup {"missing"}

External == [op |-> "external", path |-> "", value |-> None, source |-> "", outcome |-> "ok"]

\* The constructor is about to be called; the file at the save path is in
\* any state (without a save path there is no file).
Init ==
    /\ threads = <<>> /\ last = External /\ self = None
    /\ \E name \in ClassNames, save_path \in {None, SavePath}, auto_save \in BOOLEAN :
          /\ call = [fn |-> "__init__", model_cls |-> name, save_path |-> save_path,
                     auto_save |-> auto_save]
          /\ file \in IF save_path = None THEN {Missing}
                       ELSE {Missing, Garbage} \cup MapsOf(ClassOf(name))

\* a call has returned or raised
Called(op, path, value, source, r) ==
    /\ self' = r.self
    /\ last' = [op |-> op, path |-> path, value |-> value, source |-> source,
                outcome |-> r.outcome]

\* ConfigInstance(name=..., model_cls=..., save_path=..., auto_save=...)
Create ==
    /\ last = External /\ self = None
    /\ Called("__init__", "", None, "",
              __init__(ClassOf(call.model_cls), call.save_path, call.auto_save, file))
    /\ UNCHANGED <<call, file, threads>>

SetValue ==
    /\ self # None
    /\ \E path \in Paths, value \in SetVals :
          Called("set_value", path, value, "", set_value(self, path, value))
    /\ UNCHANGED <<call, file, threads>>

RestoreValue ==
    /\ self # None
    /\ \E path \in Paths, source \in Sources :
          Called("restore_value", path, None, source, restore_value(self, file, path, source))
    /\ UNCHANGED <<call, file, threads>>

RestoreDefaults ==
    /\ self # None
    /\ Called("restore_defaults", "", None, "", restore_defaults(self))
    /\ UNCHANGED <<call, file, threads>>

\* save(): persist
Save ==
    /\ self # None
    /\ Called("save", "", None, "", Result(save(self, None), "RecursionError"))
    /\ UNCHANGED <<call, file, threads>>

\* get_metadata(path): the consolidated mapping is kept in last.returned;
\* a key that is no field raises KeyError at line 176
GetMetadata ==
    /\ self # None
    /\ \E path \in Paths :
          IF path \in FieldNames(self._model_cls)
          THEN /\ self' = [self EXCEPT !._model_cls = MetadataWritten(self._model_cls, path)]
               /\ last' = [op |-> "get_metadata", path |-> path, value |-> None,
                           source |-> "", outcome |-> "ok",
                           returned |-> get_metadata(self._model_cls, path)]
          ELSE /\ self' = self
               /\ last' = [op |-> "get_metadata", path |-> path, value |-> None,
                           source |-> "", outcome |-> "KeyError", returned |-> None]
    /\ UNCHANGED <<call, file, threads>>

\* the watcher reloads the instance
Reload ==
    /\ self # None
    /\ self._save_path # None
    /\ Called("reload", "", None, "", Result(_reload_config_instance(self, file), "ok"))
    /\ UNCHANGED <<call, file, threads>>

\* another program writes, garbles or deletes the file
FileWrite ==
    /\ self # None
    /\ self._save_path # None
    /\ file' \in MapsOf(self._model_cls)
    /\ last' = External
    /\ UNCHANGED <<call, self, threads>>

FileGarble ==
    /\ self # None
    /\ self._save_path # None
    /\ file' = Garbage
    /\ last' = External
    /\ UNCHANGED <<call, self, threads>>

FileDelete ==
    /\ self # None
    /\ self._save_path # None
    /\ file' = Missing
    /\ last' = External
    /\ UNCHANGED <<call, self, threads>>

Next ==
    \/ Create
    \/ SetValue
    \/ RestoreValue
    \/ RestoreDefaults
    \/ Save
    \/ GetMetadata
    \/ Reload
    \/ FileWrite
    \/ FileGarble
    \/ FileDelete

Spec == Init /\ [][Next]_vars

\* --- C9
\* the items a range input parses to: the stripped parts of a string, the
\* elements of a list or tuple, a single value doubled when that is allowed
RangeParts(val, format_spec) ==
    LET sep == Get(format_spec, "input_separator", S(<<"-">>))
        single == Truthy(Get(format_spec, "allow_single_value_as_range", B(FALSE)))
        split == Split(val.s, sep.s[1])
    IN CASE val.k = "str" ->
              IF Len(split) = 1 /\ single THEN <<S(Strip(split[1])), S(Strip(split[1]))>>
              ELSE [i \in 1..Len(split) |-> S(Strip(split[i]))]
         [] val.k \in {"list", "tuple"} -> val.xs
         [] IsNumber(val) /\ single -> <<val, val>>
         [] OTHER -> <<>>

\* v brought into [lo, hi], a missing bound leaving that side open
Into(v, lo, hi) ==
    IF lo # None /\ v < lo.n THEN lo.n
    ELSE IF hi # None /\ v > hi.n THEN hi.n ELSE v

\* C9: under clamp_items with order enforcement on, an input that parses to
\* two coercible items gives the pair of the two items, each clamped into
\* [min_item_value, max_item_value], the smaller one first, so that
\* min_item_value <= a <= b <= max_item_value; "12-3" with bounds [0, 10]
\* gives (3, 10).
C9_ClampItemsOrdered ==
    (/\ call.fn = "range" /\ call.out # Pending
     /\ call.policy = "clamp_items"
     /\ Truthy(Get(call.format_spec, "enforce_min_le_max", B(TRUE)))
     /\ Len(RangeParts(call.val, call.format_spec)) = 2
     /\ \A i \in 1..2 : IntOrNone(RangeParts(call.val, call.format_spec)[i]) # None)
    =>
    LET lo == Get(call.format_spec, "min_item_value", None)
        hi == Get(call.format_spec, "max_item_value", None)
        parts == RangeParts(call.val, call.format_spec)
        x == Into(IntOrNone(parts[1]).n, lo, hi)
        y == Into(IntOrNone(parts[2]).n, lo, hi)
    IN (lo = None \/ hi = None \/ lo.n <= hi.n) =>
        /\ call.out = T(<<I(Min2(x, y)), I(Max2(x, y))>>)
        /\ lo # None => lo.n <= call.out.xs[1].n
        /\ call.out.xs[1].n <= call.out.xs[2].n
        /\ hi # None => call.out.xs[2].n <= hi.n
        /\ (call.val = S(<<"1", "2", "-", "3">>) /\ lo = I(0) /\ hi = I(10))
              => call.out = T(<<I(3), I(10)>>)

C9_Witness ==
    /\ call.fn = "range"
    /\ call.policy = "clamp_items"
    /\ call.val = S(<<"1", "2", "-", "3">>)
    /\ Get(call.format_spec, "min_item_value", None) = I(0)
    /\ Get(call.format_spec, "max_item_value", None) = I(10)
    /\ "enforce_min_le_max" \notin DOMAIN call.format_spec
    /\ call.out = T(<<I(3), I(10)>>)

\* --- C10
\* the items a multiple-choice input parses to
MCParts(val, format_spec) ==
    LET sep == Get(format_spec, "input_separator", None)
    IN IF val.k = "str" /\ Truthy(sep) THEN NonEmptyStrs(Split(val.s, sep.s[1]))
       ELSE IF val.k = "list" THEN val.xs
       ELSE <<val>>

\* the positions of xs holding a member of opts that no earlier position holds
FirstValid(xs, opts) ==
    {i \in 1..Len(xs) : /\ \E o \in 1..Len(opts) : opts[o] = xs[i]
                        /\ \A j \in 1..(i - 1) : xs[j] # xs[i]}

\* the sub-sequence of xs at the positions idx, from position i on
RECURSIVE SubAt(_, _, _)
SubAt(xs, idx, i) ==
    IF i > Len(xs) THEN <<>>
    ELSE (IF i \in idx THEN <<xs[i]>> ELSE <<>>) \o SubAt(xs, idx, i + 1)

\* C10: under remove_invalid with allow_duplicates false the result is the
\* sub-sequence of the parsed input items that are members of options, each
\* kept once at the position of its first occurrence; "flat,ball,foo,flat"
\* against ["flat", "ball"] gives ["flat", "ball"].
C10_RemoveInvalidSubsequence ==
    (/\ call.fn = "multiple_choice" /\ call.out # Pending
     /\ call.policy = "remove_invalid"
     /\ ~Truthy(Get(call.format_spec, "allow_duplicates", B(FALSE)))
     /\ call.val # None)
    =>
    LET parts == MCParts(call.val, call.format_spec)
    IN /\ call.out = L(SubAt(parts, FirstValid(parts, call.opts), 1))
       /\ (parts = <<Flat, Ball, Foo, Flat>> /\ call.opts = <<Flat, Ball>>)
             => call.out = L(<<Flat, Ball>>)

C10_Witness ==
    /\ call.fn = "multiple_choice"
    /\ call.policy = "remove_invalid"
    /\ call.val = S(<<"f", "l", "a", "t", ",", "b", "a", "l", "l", ",", "f", "o", "o", ",",
                      "f", "l", "a", "t">>)
    /\ call.opts = <<Flat, Ball>>
    /\ "allow_duplicates" \notin DOMAIN call.format_spec
    /\ call.out = L(<<Flat, Ball>>)

\* --- C6
\* the number a numeric input stands for without evaluation: the number
\* itself, or the int a plain integer string parses to
PlainNumber(val) == IsNumber(val) \/ (val.k = "str" /\ IntParses(val.s))
NumberOf(val) == IF IsNumber(val) THEN val ELSE I(IntParse(val.s))

\* C6: under numeric policy clamp each declared bound is enforced on its own:
\* a value below low becomes low, a value above high becomes high, a value
\* inside is unchanged, and a bound that is not declared imposes nothing on
\* its side (with only ge=4000 every larger value is kept).
C6_ClampPerBound ==
    (/\ call.fn = "numeric" /\ call.out # Pending
     /\ call.policy = "clamp"
     /\ PlainNumber(call.val)
     /\ (call.low = None \/ call.high = None \/ ~NumLT(call.high, call.low)))
    =>
    LET v == NumberOf(call.val)
    IN /\ (call.low # None /\ NumLT(v, call.low)) => call.out = call.low
       /\ (call.high # None /\ NumLT(call.high, v)) => call.out = call.high
       /\ (~(call.low # None /\ NumLT(v, call.low))
           /\ ~(call.high # None /\ NumLT(call.high, v))) => call.out = v

C6_Witness ==
    /\ call.fn = "numeric"
    /\ call.policy = "clamp"
    /\ call.low = I(4000) /\ call.high = None
    /\ call.val = I(100000)
    /\ call.out = I(100000)

C8_AutoIdempotent ==
    (call.fn = "auto" /\ call.again # Pending) => call.again = call.out

\* ---------------------------------------------------------------- claims on the instance
\* the call that has just returned
Did(op) == last'.op = op /\ self # None

\* the mapping set_value(path, value) hands to the model class
Written(path, value) == [self._active EXCEPT ![path] = value]

\* --- C1
\* C1: a set on an instance whose class has the auto-fix pass attached, in
\* which a fixer returns REJECT for a field of the written mapping, is
\* rejected as a whole: it does not return normally and active is what it
\* was before the call.
C1_RejectedWriteNotCommitted ==
    [][(/\ Did("set_value")
        /\ self._model_cls.attached
        /\ last'.path \in DOMAIN self._active
        /\ Rejected(self._model_cls, Written(last'.path, last'.value)) # {})
       => (last'.outcome # "ok" /\ self'._active = self._active)]_vars

\* --- C2
\* C2: on a field whose metadata says editable=False, set(path, v) for every
\* v, restore(path, "default") and restore(path, "file") raise
\* PermissionError, and active and the file are what they were.
C2_NonEditableBlocked ==
    [][(/\ Did("set_value") \/ (Did("restore_value") /\ last'.source \in {"default", "file"})
        /\ last'.path \in FieldNames(self._model_cls)
        /\ get_metadata(self._model_cls, last'.path).editable = B(FALSE))
       => (/\ last'.outcome = "PermissionError"
           /\ self'._active = self._active
           /\ file' = file)]_vars

\* --- C3
\* C3: a set whose written mapping fails the structural validation of the
\* class (an out-of-range number under numeric policy reject included)
\* raises ValueError, leaves active as it was, every path holding its old
\* value, and saves nothing.
C3_InvalidSetLeavesActive ==
    [][(/\ Did("set_value")
        /\ last'.path \in DOMAIN self._active
        /\ Construct(self._model_cls, Written(last'.path, last'.value))
              = Raised("ValidationError"))
       => (/\ last'.outcome = "ValueError"
           /\ self'._active = self._active
           /\ \A f \in DOMAIN self._active : self'._active[f] = self._active[f]
           /\ file' = file)]_vars

C3_Witness ==
    /\ call.model_cls = "NumRejectCfg"
    /\ last.op = "set_value" /\ last.path = "val" /\ last.value = I(20)
    /\ last.outcome = "ValueError"
    /\ self._active = [val |-> I(5)]

\* --- C4
\* a value of the field's annotated type within the field's constraints
ConformsTo(info, val) ==
    CASE info.annotation = "int" ->
             /\ val.k = "int"
             /\ info.ge # None => val.n >= info.ge.n
             /\ info.le # None => val.n =< info.le.n
      [] info.annotation = "str" -> val.k = "str"
      [] info.annotation = "tuple[int, int]" ->
             /\ val.k = "tuple" /\ Len(val.xs) = 2
             /\ \A i \in 1..2 : val.xs[i].k = "int"

\* C4: in every reachable state of an instance, whatever calls of the
\* constructor, set, restore, restore_defaults, save and the watcher's
\* reload returned or raised, active is a complete instance of the class:
\* every field of the class is there, nothing else, each with a value of its
\* type within its constraints.
C4_ActiveAlwaysValid ==
    self # None =>
        /\ DOMAIN self._active = FieldNames(self._model_cls)
        /\ \A f \in FieldNames(self._model_cls) :
              ConformsTo(FieldOf(self._model_cls, f), self._active[f])

C4_Witness ==
    /\ call.model_cls = "TwoCfg"
    /\ last.op = "set_value" /\ last.path = "val" /\ last.value = I(20)
    /\ last.outcome = "ValueError"
    /\ self._active = [val |-> I(5), tool |-> Ball]

\* --- C11
\* a str field with declared options whose options policy is reject or bypass
OptionsKept(cls, path) ==
    /\ path \in FieldNames(cls)
    /\ FieldOf(cls, path).annotation = "str"
    /\ Get(FieldOf(cls, path).extra, "options", <<>>) # <<>>
    /\ cls.attached
    /\ EffPolicy(cls, FieldOf(cls, path), "options_policy") \in {"reject", "bypass"}

\* C11: on a str field with declared options under options policy reject
\* or bypass, a set of a string that is none of the options succeeds and
\* active then holds that string.
C11_NonOptionStored ==
    [][(/\ Did("set_value")
        /\ OptionsKept(self._model_cls, last'.path)
        /\ last'.value.k = "str"
        /\ ~InOpts(last'.value, FieldOf(self._model_cls, last'.path).extra.options))
       => (last'.outcome = "ok" /\ self'._active[last'.path] = last'.value)]_vars

\* --- C13
\* C13: save never raises: a call of save returns True or False, and no set,
\* restore, restore_defaults or construction ends in an exception of the
\* save it makes (auto-save, or the bootstrap of a missing file).
C13_SaveNeverRaises ==
    /\ last.op = "save" => last.outcome \in {"True", "False"}
    /\ last.outcome # "RecursionError"

\* --- C14
\* the instance the file validates to, None when there is no file, no
\* document in it, or a document that does not validate
FileInstance(cls, save_path, on_disk) ==
    IF save_path = None \/ on_disk \in {Missing, Garbage} THEN None
    ELSE IF IsRaised(Construct(cls, on_disk)) THEN None
    ELSE Construct(cls, on_disk)

\* C14: the constructor never fails because of the file: with no file, an
\* unreadable one or one whose data does not validate it returns an instance
\* whose active equals defaults, with a valid file one whose active is the
\* validated content.
C14_ConstructionNeverFails ==
    last.op = "__init__" =>
        /\ last.outcome = "ok"
        /\ self # None
        /\ self._active =
              IF FileInstance(ClassOf(call.model_cls), call.save_path, file) = None
              THEN Defaults(ClassOf(call.model_cls))
              ELSE FileInstance(ClassOf(call.model_cls), call.save_path, file)

\* --- C15
\* C15: restore(path, source) on an editable field: with "default" the field
\* becomes the value defaults holds, with "file" the value the file holds
\* or, the file absent or unreadable, that of defaults; every other field
\* keeps its value; any other source fails and active is as it was.
C15_RestoreOneField ==
    [][(/\ Did("restore_value")
        /\ last'.path \in FieldNames(self._model_cls)
        /\ get_metadata(self._model_cls, last'.path).editable # B(FALSE))
       => CASE last'.source = "default" ->
                   self'._active = [self._active EXCEPT ![last'.path] = self._defaults[last'.path]]
            [] last'.source = "file" ->
                   self'._active =
                       [self._active EXCEPT ![last'.path] =
                           IF FileInstance(self._model_cls, self._save_path, file) = None
                           THEN self._defaults[last'.path]
                           ELSE FileInstance(self._model_cls, self._save_path, file)[last'.path]]
            [] OTHER -> last'.outcome # "ok" /\ self'._active = self._active]_vars

\* --- C20
\* C20: defaults is what the class gave at construction, in every state, and
\* active is never the defaults object itself (so that a write to the
\* object active returns cannot change defaults).
C20_DefaultsNeverShared ==
    self # None =>
        /\ self._defaults = Defaults(ClassOf(call.model_cls))
        /\ ~self._aliased

\* ---------------------------------------------------------------- two threads in set_value
\* Two threads call set_value on one instance that has no lock.  A thread
\* is [pc, path, value, new_instance, outcome]; between two lines of
\* set_value the other thread may run.
ThreadIds == {1, 2}

Thread(path, value) ==
    [pc |-> "deep_set", path |-> path, value |-> value, new_instance |-> None,
     outcome |-> "running"]

\* the classes with two fields, and a valid value for each field
ConcClasses == {"SimpleCfg", "TwoCfg"}
ConcVals(name) ==
    IF name = "SimpleCfg" THEN [foo |-> {I(5), I(20)}, bar |-> {Foo, Flat}]
    ELSE [val |-> {I(5), I(7)}, tool |-> {Ball, Vbit}]

ConcInit ==
    /\ call = None /\ file = Missing /\ last = External
    /\ \E name \in ConcClasses, auto_save \in BOOLEAN :
          /\ self = __init__(ClassOf(name), None, auto_save, Missing).self
          /\ \E p1 \in DOMAIN ConcVals(name), p2 \in DOMAIN ConcVals(name) :
                /\ p1 # p2
                /\ \E v1 \in ConcVals(name)[p1], v2 \in ConcVals(name)[p2] :
                      threads = <<Thread(p1, v1), Thread(p2, v2)>>

\* the thread leaves set_value with the exception
Raise(t, exc) == [threads EXCEPT ![t].pc = "done", ![t].outcome = exc]

\* line 144: new_instance = _deep_set(self._active, keys, value)
DeepSetStep(t, new_instance) ==
    IF IsRaised(new_instance) THEN threads' = Raise(t, Reraised(new_instance.exc))
    ELSE threads' = [threads EXCEPT ![t].pc = "metadata", ![t].new_instance = new_instance]

SetDeepSet ==
    \E t \in ThreadIds :
        /\ threads[t].pc = "deep_set"
        /\ DeepSetStep(t, _deep_set(self._model_cls, self._active, threads[t].path,
                                    threads[t].value))
        /\ UNCHANGED <<call, self, file, last>>

\* lines 146-148: the metadata and the editability check
SetMetadata ==
    \E t \in ThreadIds :
        /\ threads[t].pc = "metadata"
        /\ self' = [self EXCEPT !._model_cls = MetadataWritten(self._model_cls, threads[t].path)]
        /\ threads' = IF get_metadata(self._model_cls, threads[t].path).editable = B(FALSE)
                      THEN Raise(t, "PermissionError")
                      ELSE [threads EXCEPT ![t].pc = "assign"]
        /\ UNCHANGED <<call, file, last>>

\* line 149 on what the constructor gave
AssignStep(t, validated) ==
    IF IsRaised(validated)
    THEN self' = self /\ threads' = Raise(t, Reraised(validated.exc))
    ELSE /\ self' = Assign(self, validated)
         /\ threads' = IF self._auto_save THEN [threads EXCEPT ![t].pc = "save"]
                       ELSE [threads EXCEPT ![t].pc = "done", ![t].outcome = "ok"]

SetAssign ==
    \E t \in ThreadIds :
        /\ threads[t].pc = "assign"
        /\ AssignStep(t, Construct(self._model_cls, threads[t].new_instance))
        /\ UNCHANGED <<call, file, last>>

\* lines 153-154: self.save() under auto_save
SetSave ==
    \E t \in ThreadIds :
        /\ threads[t].pc = "save"
        /\ self' = save(self, None)
        /\ threads' = Raise(t, "RecursionError")
        /\ UNCHANGED <<call, file, last>>

ConcNext ==
    \/ SetDeepSet
    \/ SetMetadata
    \/ SetAssign
    \/ SetSave

SpecConc == ConcInit /\ [][ConcNext]_vars

\* --- C5
\* C5: when two threads have called set on two different fields of one
\* instance, both values valid, and both calls are over, active holds both
\* values, whatever the interleaving was.
C5_BothSetsPresent ==
    (threads # <<>> /\ \A t \in ThreadIds : threads[t].pc = "done")
    => \A t \in ThreadIds : self._active[threads[t].path] = threads[t].value

\* ---------------------------------------------------------------- the registry
\* In SpecReg self is the manager, [_instances], a mapping from the names
\* registered to their instances.
\* what callers pass as model_cls: settings classes and a class that is none
RegClasses == {"NumRejectCfg", "SimpleCfg", "NotSettings"}
RegNames == {"a", "b"}

\* issubclass(model_cls, BaseSettings)
IsSettings(name) == name \in ClassNames

\* manager2.py register, lines 291-298, on what the constructor gave
Registered(mgr, name, made) ==
    IF made.self = None THEN Result(mgr, made.outcome)
    ELSE Result([mgr EXCEPT !._instances = (name :> made.self) @@ @], "ok")

\* the registration without the duplicate check: a second register of a
\* name replaces the instance
register_over(mgr, name, model_cls, save_path, auto_save, on_disk) ==
    IF ~IsSettings(model_cls) THEN Result(mgr, "TypeError")
    ELSE Registered(mgr, name, __init__(ClassOf(model_cls), save_path, auto_save, on_disk))

\* manager2.py _ConfigManagerInternal.register
register(mgr, name, model_cls, save_path, auto_save, on_disk) ==
    IF name \in DOMAIN mgr._instances THEN Result(mgr, "ValueError")
    ELSE IF ~IsSettings(model_cls) THEN Result(mgr, "TypeError")
    ELSE Registered(mgr, name, __init__(ClassOf(model_cls), save_path, auto_save, on_disk))

\* manager2.py _ConfigManagerInternal.__init__: no instance registered
RegInit ==
    /\ call = None /\ threads = <<>> /\ last = External
    /\ self = [_instances |-> <<>>]
    /\ file \in {Missing, [val |-> I(5)]}

Register ==
    /\ \E name \in RegNames, model_cls \in RegClasses, save_path \in {None, SavePath},
          auto_save \in BOOLEAN :
          Called("register", name, S(model_cls), "",
                 register(self, name, model_cls, save_path, auto_save, file))
    /\ UNCHANGED <<call, file, threads>>

\* the instance set_value(path, value) of the instance leaves in the table
InstanceSet(mgr, name, r) ==
    Result([mgr EXCEPT !._instances[name] = r.self], r.outcome)

\* ConfigManager[name].set_value(path, value) on the first field
RegSetValue ==
    /\ \E name \in DOMAIN self._instances, value \in {I(5), I(20)} :
          Called("set_value", name, value, "",
                 InstanceSet(self, name,
                             set_value(self._instances[name],
                                       self._instances[name]._model_cls.fields[1].name, value)))
    /\ UNCHANGED <<call, file, threads>>

RegNext ==
    \/ Register
    \/ RegSetValue

SpecReg == RegInit /\ [][RegNext]_vars

\* --- C12
\* C12: register of a name already registered fails, and a register that
\* fails (the name taken, a class that is no settings class, the constructor
\* raising) leaves the table as it was: the same names, each with the
\* instance and the active it had.
C12_FailedRegisterKeepsTable ==
    [][Did("register")
       => (/\ last'.path \in DOMAIN self._instances => last'.outcome = "ValueError"
           /\ last'.outcome # "ok" => self'._instances = self._instances)]_vars

C12_Witness ==
    /\ last.op = "register" /\ last.path = "a" /\ last.outcome = "ValueError"
    /\ DOMAIN self._instances = {"a"}
    /\ self._instances["a"]._active = [val |-> I(5)]
    /\ self._instances["a"]._save_path = None

\* ---------------------------------------------------------------- the watcher
\* watch_and_reload on one registered instance.  threads is <<w>>, the
\* watcher thread: [pc, stop, subscribed, pending, batch, late, attempt,
\* tries, slept].  stop is the Event the owner sets; pending holds the
\* changes the filesystem subscription has seen and not yet yielded; batch
\* is the change batch in hand and late tells that it was yielded after stop
\* was set; attempt, tries (the calls of _load_from_disk made) and slept
\* (the waits made, in milliseconds) are those of the reload in hand.
max_attempts == 5
\* base_delay in milliseconds
base_delay == 10

\* the events that start no reload at all
reload_events_none == {}

\* lines 114-123: Change has no member moved or move
reload_events == {"modified", "added"}

Watcher ==
    [pc |-> "start", stop |-> FALSE, subscribed |-> FALSE, pending |-> {}, batch |-> {},
     late |-> FALSE, attempt |-> 0, tries |-> 0, slept |-> <<>>]

\* what the watched file holds: a valid mapping or one that does not validate
WatchMaps == {[val |-> I(5)], [val |-> I(20)]}

\* the instance a watcher reloads: one registered with a save path, its
\* file there
Watched == __init__(ClassOf("NumRejectCfg"), SavePath, FALSE, [val |-> I(5)]).self

\* config_instance._load_from_disk() of line 194, by what the file holds
\* (neither the class nor the path of the instance ever changes)
LoadedFrom == [on_disk \in WatchMaps \cup {Missing} |-> _load_from_disk(Watched, on_disk)]

\* A registered instance, made from the file as it was, and the watcher
\* thread just started (lines 224-225).
WatchInit ==
    /\ call = None /\ last = External
    /\ threads = <<Watcher>>
    /\ \/ /\ file \in WatchMaps
          /\ self = __init__(Watched._model_cls, Watched._save_path, FALSE, file).self
       \/ /\ file = Missing
          /\ self = __init__(ClassOf("NumRejectCfg"), None, FALSE, Missing).self

W == threads[1]
To(w) == threads' = <<w>>

\* the loop is left: the generator of watch() is closed and with it the
\* subscription
Exited(w) == [w EXCEPT !.pc = "exited", !.subscribed = FALSE]

\* the loop takes the next batch
Watching(w) ==
    [w EXCEPT !.pc = "watch", !.batch = {}, !.late = FALSE, !.attempt = 0, !.tries = 0,
              !.slept = <<>>]

\* lines 73-129: the file map; without a directory to watch the loop returns
StartWatcher ==
    /\ W.pc = "start"
    /\ To(IF self._save_path = None THEN Exited(W)
          ELSE [W EXCEPT !.pc = "watch", !.subscribed = TRUE])
    /\ UNCHANGED <<call, self, file, last>>

\* watch(..., stop_event=stop_event) ends when the event is set
WatchStopped ==
    /\ W.pc = "watch" /\ W.stop
    /\ To(Exited(W))
    /\ UNCHANGED <<call, self, file, last>>

\* watch() yields the changes it has seen
WatchYield ==
    /\ W.pc = "watch" /\ W.pending # {}
    /\ To([W EXCEPT !.pc = "batch", !.batch = W.pending, !.pending = {}, !.late = W.stop])
    /\ UNCHANGED <<call, self, file, last>>

\* lines 133-175, the stop check of lines 130-131 left out
BatchReloads(w, stop) ==
    IF w.batch \cap reload_events # {}
    THEN [w EXCEPT !.pc = "attempt", !.batch = {}]
    ELSE Watching(w)

\* lines 130-175: the batch in hand: break when stop is set, else the
\* reload of the instance when a change of the batch is a reload event
BatchChecked(w, stop) ==
    IF stop THEN Exited(w) ELSE BatchReloads(w, stop)

BatchCheck ==
    /\ W.pc = "batch"
    /\ To(BatchChecked(W, W.stop))
    /\ UNCHANGED <<call, self, file, last>>

\* lines 196-211 on what _load_from_disk returned
Attempted(w, loaded_instance) ==
    IF loaded_instance # None THEN Watching(w)
    ELSE IF w.attempt < max_attempts - 1
    THEN [w EXCEPT !.pc = "sleep", !.tries = @ + 1]
    ELSE [w EXCEPT !.pc = "check", !.tries = @ + 1]

\* line 198 on what _load_from_disk returned
AttemptAssigned(obj, loaded_instance) ==
    IF loaded_instance # None THEN Assign(obj, loaded_instance) ELSE obj

\* lines 192-206: one attempt
LoadAttempt ==
    /\ W.pc = "attempt"
    /\ To(Attempted(W, LoadedFrom[file]))
    /\ self' = AttemptAssigned(self, LoadedFrom[file])
    /\ UNCHANGED <<call, file, last>>

\* a delay that grows by base_delay with every attempt
delay_linear(attempt) == base_delay * (attempt + 1)

\* base_delay * (2 ** attempt), in milliseconds
delay(attempt) == base_delay * IntPow(2, attempt)

\* lines 209-211: the wait before the next attempt
Backoff ==
    /\ W.pc = "sleep"
    /\ To([W EXCEPT !.pc = "attempt", !.slept = Append(@, delay(W.attempt)),
                    !.attempt = @ + 1])
    /\ UNCHANGED <<call, self, file, last>>

\* lines 213-221: every attempt failed
ExistsCheck ==
    /\ W.pc = "check"
    /\ self' = IF file = Missing THEN Assign(self, self._defaults) ELSE self
    /\ To(Watching(W))
    /\ UNCHANGED <<call, file, last>>

\* another program writes the watched file
ExternalWrite ==
    /\ W.subscribed
    /\ file' \in WatchMaps \ {file}
    /\ To([W EXCEPT !.pending = @ \cup {IF file = Missing THEN "added" ELSE "modified"}])
    /\ UNCHANGED <<call, self, last>>

\* another program deletes the watched file
ExternalDelete ==
    /\ W.subscribed /\ file # Missing
    /\ file' = Missing
    /\ To([W EXCEPT !.pending = @ \cup {"deleted"}])
    /\ UNCHANGED <<call, self, last>>

\* the owner: stop_event.set()
StopSet ==
    /\ ~W.stop
    /\ To([W EXCEPT !.stop = TRUE])
    /\ UNCHANGED <<call, self, file, last>>

\* the steps of the watcher thread
WatcherStep ==
    \/ StartWatcher
    \/ WatchStopped
    \/ WatchYield
    \/ BatchCheck
    \/ LoadAttempt
    \/ Backoff
    \/ ExistsCheck

WatchNext ==
    \/ StartWatcher
    \/ WatchStopped
    \/ WatchYield
    \/ BatchCheck
    \/ LoadAttempt
    \/ Backoff
    \/ ExistsCheck
    \/ ExternalWrite
    \/ ExternalDelete
    \/ StopSet

\* the watcher thread is a running thread: it takes its next step
SpecWatch == WatchInit /\ [][WatchNext]_vars /\ WF_vars(WatcherStep)

\* --- C16
\* the watcher is in a reload
InReload == W.pc \in {"attempt", "sleep", "check"}

C17_DeletedResetsActive ==
    (/\ W.pc = "watch" /\ W.subscribed /\ ~W.stop
     /\ W.pending = {}
     /\ file = Missing)
    => self._active = self._defaults

\* --- C18
\* the waits 10ms * 2^k, k from 0
Waits(n) == [k \in 1..n |-> 10 * IntPow(2, k - 1)]

\* what holds of a reload at each of its steps
ReloadShape ==
    /\ W.tries <= 5
    /\ W.slept = Waits(Len(W.slept)) /\ Len(W.slept) <= 4
    /\ W.pc = "attempt" => W.tries = Len(W.slept)
    /\ W.pc = "sleep" => W.tries = Len(W.slept) + 1
    /\ W.pc = "check" => W.tries = 5 /\ Len(W.slept) = 4

\* what a step of a reload does to active: an attempt that loads assigns
\* the loaded instance and ends the reload; no other step but the last one,
\* the file gone, changes active
ReloadStep ==
    InReload =>
        /\ (W.pc = "attempt" /\ FileInstance(self._model_cls, self._save_path, file) # None)
              => /\ self'._active = FileInstance(self._model_cls, self._save_path, file)
                 /\ ~InReload'
        /\ (W.pc = "attempt" /\ FileInstance(self._model_cls, self._save_path, file) = None)
              => InReload'
        /\ (FileInstance(self._model_cls, self._save_path, file) = None
            /\ ~(W.pc = "check" /\ file = Missing))
              => self'._active = self._active

\* C18: one reload makes at most 5 load attempts, ends at the first that
\* loads, with active the loaded instance, waits 10ms * 2^k after the failed
\* attempt k = 0..3 and not after the fifth, and always ends; when all five
\* failed and the file is still there, active is what it was before the
\* reload.
C18_BoundedReload ==
    /\ []ReloadShape
    /\ [][(W'.pc # W.pc \/ W'.tries # W.tries) => ReloadStep]_vars
    /\ (InReload ~> ~InReload)

C18_Witness ==
    /\ W.pc = "check" /\ W.tries = 5 /\ W.slept = <<10, 20, 40, 80>>
    /\ file = [val |-> I(20)]
    /\ self._active = [val |-> I(5)]

\* --- C19
\* C19: once the owner has set the stop event the watcher thread ends, its
\* loop left and the subscription closed, and no reload is started for a
\* batch that was yielded after the event was set.
C19_StopEndsWatcher ==
    /\ [](InReload => ~W.late)
    /\ (W.stop ~> (W.pc = "exited" /\ ~W.subscribed))

C19_Witness ==
    /\ W.pc = "exited" /\ W.stop /\ W.late
    /\ "modified" \in W.batch
    /\ self._active = [val |-> I(1)] /\ file = [val |-> I(5)]

\* ---------------------------------------------------------------- more claims on the instance
\* --- C21
\* C21: an instance without a save path never does disk I/O: no call on it
\* creates or writes a file, save() returns False, and set_value still
\* returns or raises for the value alone.
C21_NoDiskIO ==
    [][(self # None /\ self._save_path = None /\ last'.op # "external")
          => /\ file' = file
             /\ last'.op = "save" => last'.outcome = "False"
             /\ last'.op = "set_value" => last'.outcome # "RecursionError"]_vars

\* ---------------------------------------------------------------- more claims on the pass
\* the pass has returned a mapping
AutoReturned == call.fn = "auto" /\ call.out # Pending /\ ~IsRaised(call.out)

\* --- C22
\* C22: in the mapping the pass returns, a field for which a fixer returned
\* REJECT is absent, and every other field of the input is present with its
\* fixed value.
C22_RejectedFieldDropped ==
    AutoReturned =>
        \A f \in DOMAIN call.raw \cap FieldNames(call.cls) :
            IF f \in Rejected(call.cls, call.raw)
            THEN f \notin DOMAIN call.out
            ELSE /\ f \in DOMAIN call.out
                 /\ call.out[f] = FixField(call.cls, FieldOf(call.cls, f), call.raw[f])

\* ---------------------------------------------------------------- more claims on the fixers
\* --- C23
\* a range input that is not exactly two items, or has an item that cannot
\* be coerced to the item type
Malformed(val, format_spec) ==
    \/ Len(RangeParts(val, format_spec)) # 2
    \/ \E i \in 1..2 : IntOrNone(RangeParts(val, format_spec)[i]) = None

\* C23: the range fixer on a malformed input gives REJECT under reject and
\* reject_if_invalid_structure, and under every other policy the input value
\* itself, a string as the same string.
C23_MalformedRange ==
    (/\ call.fn = "range" /\ call.out # Pending
     /\ Malformed(call.val, call.format_spec))
    => IF call.policy \in {"reject", "reject_if_invalid_structure"}
       THEN call.out = None
       ELSE call.out = call.val

\* --- C24
\* the number of parsed items that remain after duplicate removal (when
\* duplicates are not allowed) and validity filtering
RemainingCount(parts, opts, allow_duplicates) ==
    Cardinality({i \in 1..Len(parts) :
                    /\ \E o \in 1..Len(opts) : opts[o] = parts[i]
                    /\ allow_duplicates \/ \A j \in 1..(i - 1) : parts[j] # parts[i]})

\* C24: under reject_if_count_invalid the multiple-choice fixer gives REJECT
\* exactly when the number of items remaining after duplicate removal and
\* validity filtering is below min_selections or above max_selections.
C24_CountAfterFilter ==
    (/\ call.fn = "multiple_choice" /\ call.out # Pending
     /\ call.policy = "reject_if_count_invalid"
     /\ call.val # None)
    =>
    LET count == RemainingCount(MCParts(call.val, call.format_spec), call.opts,
                                Truthy(Get(call.format_spec, "allow_duplicates", B(FALSE))))
        min_sel == Get(call.format_spec, "min_selections", None)
        max_sel == Get(call.format_spec, "max_selections", I(Len(call.opts)))
    IN (call.out = None) <=> \/ min_sel # None /\ count < min_sel.n
                             \/ count > max_sel.n

\* --- C25
\* what the Range fixer gives for each item of a multiple-ranges input
ItemFixes(val, format_spec, item_policy) ==
    LET items == MRItems(val, Get(format_spec, "input_separator_list", None))
    IN [i \in 1..Len(items) |-> _auto_fix_range(items[i], ItemFmt(format_spec), item_policy)]

\* those that are not REJECT, in input order
Accepted(fixes) == SubAt(fixes, {i \in 1..Len(fixes) : fixes[i] # None}, 1)

\* an ordered pair of coerced numbers
IsPair(r) ==
    /\ "k" \in DOMAIN r /\ r.k = "tuple"
    /\ Len(r.xs) = 2 /\ r.xs[1].k = "int" /\ r.xs[2].k = "int"

\* two pairs overlap
Overlap(r, s) ==
    /\ IsPair(r) /\ IsPair(s)
    /\ Max2(r.xs[1].n, s.xs[1].n) < Min2(r.xs[2].n, s.xs[2].n)

\* C25: the multiple-ranges fixer under reject gives REJECT when the Range
\* fixer fails for an item or, overlapping not allowed, two accepted ranges
\* (those within max_ranges) overlap; under bypass it omits the items whose range fix fails; every
\* result that is not REJECT is a list of ordered pairs of coerced numbers
\* the Range fixer made of input items, in input order, or sorted by start
\* under sort_ranges.
C25_MultipleRanges ==
    (/\ call.fn = "multiple_ranges" /\ call.out # Pending
     /\ call.val # None)
    =>
    LET fixes == ItemFixes(call.val, call.format_spec, call.item_policy)
        accepted == Accepted(fixes)
        sorts == Truthy(Get(call.format_spec, "sort_ranges", None))
        overlapping == Truthy(Get(call.format_spec, "allow_overlapping_ranges", B(TRUE)))
        max_r == Get(call.format_spec, "max_ranges", None)
        kept == IF max_r # None /\ Len(accepted) > max_r.n
                THEN SubSeq(accepted, 1, max_r.n) ELSE accepted
    IN /\ (call.policy = "reject" /\ \E i \in 1..Len(fixes) : fixes[i] = None)
             => call.out = None
       /\ (/\ call.policy = "reject" /\ ~overlapping
           /\ \E i, j \in 1..Len(kept) : i < j /\ Overlap(kept[i], kept[j]))
             => call.out = None
       /\ call.out # None =>
             /\ "k" \in DOMAIN call.out /\ call.out.k = "list"
             /\ \A i \in 1..Len(call.out.xs) :
                   /\ IsPair(call.out.xs[i])
                   /\ \E j \in 1..Len(accepted) : accepted[j] = call.out.xs[i]
             /\ IF sorts
                THEN \A i, j \in 1..Len(call.out.xs) :
                        i < j => call.out.xs[i].xs[1].n <= call.out.xs[j].xs[1].n
                ELSE call.out.xs = SubSeq(accepted, 1, Len(call.out.xs))

\* ---------------------------------------------------------------- calls of _safe_eval
\* SpecEval starts with an expression and a namespace in `call`; its step
\* evaluates the expression.  "a" is a name no namespace binds, "[" the
\* character of an index or a list display.
EvalExprs == {S(s) : s \in StrsUpTo({"2", "v", "a", "*", "-", "+", "/", "["}, MaxLen)}

\* the namespaces: empty, v a number, v the raw input string as
\* _auto_fix_numeric binds it (line 196)
EvalNames == {<<>>, <<"v">> :> I(3), <<"v">> :> S(<<"*", "2">>)}

EvalInit ==
    /\ NoInstance
    /\ \E expr \in EvalExprs, names \in EvalNames :
          call = [fn |-> "safe_eval", expr |-> expr, names |-> names, out |-> Pending]

CallSafeEval ==
    /\ call.fn = "safe_eval" /\ call.out = Pending
    /\ call' = [call EXCEPT !.out = _safe_eval(call.expr.s, call.names)]
    /\ UNCHANGED <<self, file, last, threads>>

EvalNext == CallSafeEval

SpecEval == EvalInit /\ [][EvalNext]_vars

\* --- C27
\* the names an expression refers to
NamesIn(expr) ==
    {Tokenize(ReplaceCaret(expr), 1)[i].id :
        i \in {j \in 1..Len(Tokenize(ReplaceCaret(expr), 1)) :
                  Tokenize(ReplaceCaret(expr), 1)[j].t = "name"}}

\* C27: _safe_eval never raises: it returns a number or the failure
\* sentinel, and the sentinel for an expression that does not parse, that
\* holds a node that is not allowed (an index, a floor division) or that
\* refers to a name the namespace does not bind.
C27_SafeEvalTotal ==
    (call.fn = "safe_eval" /\ call.out # Pending)
    => /\ ~IsRaised(call.out)
       /\ call.out = None \/ IsNumber(call.out)
       /\ (\E i \in 1..Len(call.expr.s) : call.expr.s[i] = "[") => call.out = None
       /\ (\E i \in 1..(Len(call.expr.s) - 1) :
              call.expr.s[i] = "/" /\ call.expr.s[i + 1] = "/") => call.out = None
       /\ (call.expr.s = <<>> \/ call.expr.s[Len(call.expr.s)] \in OpChars)
              => call.out = None
       /\ (NamesIn(call.expr.s) \ DOMAIN call.names # {}) => call.out = None

\* ---------------------------------------------------------------- policy resolution
\* --- C26
\* the pass on TwoCfg, whose field tool overrides options_policy, and on
\* OptCfg, whose field tool declares no override
OnTwoCfg == call.fn = "auto" /\ call.cls.name = "TwoCfg" /\ call.out # Pending
OnOptCfg == call.fn = "auto" /\ call.cls.name = "OptCfg" /\ call.out # Pending
ToolOverride == call.cls.fields[2].extra.autofix.options_policy

\* what a pass gives for TwoCfg's fields when tool's fixer runs under the
\* policy `options` and val's under the policy `numeric`
ResolvedAs(raw, fixed, options, numeric) ==
    /\ ~IsRaised(fixed)
    /\ "tool" \in DOMAIN raw =>
          fixed.tool = KeepRaw(_auto_fix_options(raw.tool, call.cls.fields[2].extra.options,
                                                 options), raw.tool)
    /\ "val" \in DOMAIN raw =>
          fixed.val = KeepRaw(_auto_fix_numeric(raw.val, call.cls.fields[1], I(0), I(10),
                                                numeric, TRUE), raw.val)

\* C26: for each category the effective policy of a field is its own
\* override when it declares one and the engine-level default otherwise;
\* the override of one field changes neither the policy of another field
\* nor that of a later pass; an override outside the category's policy set
\* makes the pass that resolves it fail.
C26_PolicyResolution ==
    /\ OnTwoCfg =>
          IF "tool" \in DOMAIN call.raw /\ ToolOverride \notin PolicySets.options_policy
          THEN call.out = Raised("ValueError")
          ELSE /\ ResolvedAs(call.raw, call.out, ToolOverride,
                             call.cls.policies.numeric_policy)
               /\ call.again # Pending =>
                     IF "tool" \in DOMAIN call.out
                        /\ ToolOverride \notin PolicySets.options_policy
                     THEN call.again = Raised("ValueError")
                     ELSE ResolvedAs(call.out, call.again, ToolOverride,
                                     call.cls.policies.numeric_policy)
    /\ OnOptCfg =>
          call.out.tool = KeepRaw(_auto_fix_options(call.raw.tool,
                                                    call.cls.fields[1].extra.options,
                                                    call.cls.policies.options_policy),
                                  call.raw.tool)

\* the override "reject" has kept nearest, the engine default, from
\* replacing the value of tool, while val was clamped by the engine policy
C26_Witness ==
    /\ OnTwoCfg /\ call.again # Pending
    /\ ToolOverride = "reject" /\ call.cls.policies.numeric_policy = "clamp"
    /\ DOMAIN call.raw = {"val", "tool"}
    /\ call.raw.tool = S(<<"f", "a", "l", "t">>) /\ call.out.tool = call.raw.tool
    /\ call.raw.val = I(11) /\ call.out.val = I(10)

\* the override is no policy, and the pass that resolved it raised
InvalidOverrideResolved ==
    OnTwoCfg /\ ToolOverride = "snap" /\ "tool" \in DOMAIN call.raw

\* ---------------------------------------------------------------- the implicit prefix
\* --- C28
\* the values a numeric field may currently hold
CurrentVals == {I(n) : n \in 0..10} \cup {I(0 - 1), I(4000)}

\* the Numeric fixer on an input with a leading operator, had v been bound
\* to the number `current`
AppliedTo(current, raw_val, low, high, policy) ==
    NumericEnforce(raw_val,
                   NumericCoerced(EvaluatedOr(_safe_eval(<<"v">> \o raw_val.s,
                                                         SafeNames(current, low, high)),
                                              raw_val), <<>>),
                   low, high, policy)

PrefixedCall ==
    /\ call.fn = "numeric" /\ call.out # Pending
    /\ call.eval_allowed /\ call.val.k = "str" /\ StartsWithOp(call.val.s)

\* C28: with expression evaluation enabled, a string that starts with one
\* of / * + - is evaluated as that operator applied to the field's current
\* numeric value v, and the result is then coerced and bound-checked: the
\* fixer's result is the one some current value of the field gives.
C28_PrefixOnCurrent ==
    PrefixedCall =>
        \E current \in CurrentVals :
            call.out = AppliedTo(current, call.val, call.low, call.high, call.policy)

\* ---------------------------------------------------------------- clamp and the constraints
\* --- C29
\* pydantic's bound and multiple_of constraints on a number
Satisfies(info, val) ==
    /\ info.ge = None \/ ~NumLT(val, info.ge)
    /\ info.gt = None \/ NumLT(info.gt, val)
    /\ info.le = None \/ ~NumLT(info.le, val)
    /\ info.lt = None \/ NumLT(val, info.lt)
    /\ info.multiple_of = None \/ NumerOf(val) % (DenomOf(val) * info.multiple_of.n) = 0

\* some integer satisfies the field's constraints (ge 4000 with le 10 is
\* a declaration nothing satisfies)
Satisfiable(info) == \E n \in ((0 - 1)..12) \cup {4000} : ConstraintsHold(info, n)

\* the pass has returned a number for the numeric field val of a class
\* whose numeric policy is clamp
ClampedVal ==
    /\ AutoReturned /\ call.cls.name \in {"NumCfg", "MultCfg", "BoundCfg"}
    /\ Satisfiable(FieldOf(call.cls, "val"))
    /\ EffPolicy(call.cls, FieldOf(call.cls, "val"), "numeric_policy") = "clamp"
    /\ "val" \in DOMAIN call.out
    /\ FixField(call.cls, FieldOf(call.cls, "val"), call.raw.val) # None
    /\ IsNumber(call.out.val)

\* C29: under numeric policy clamp the value the pass produces for a
\* numeric field satisfies every constraint declared on the field: ge and
\* le, the exclusive gt and lt, and multiple_of together with the bounds.
C29_ClampSatisfies == ClampedVal => Satisfies(FieldOf(call.cls, "val"), call.out.val)

\* ---------------------------------------------------------------- metadata
\* --- C30
\* C30: get_metadata(path) is read-only: a call leaves the schema's
\* declared per-field metadata (json_schema_extra), the defaults and the
\* active value as they were, and two successive calls for the same path
\* with no write in between return equal mappings.
C30_MetadataReadOnly ==
    [][(self # None /\ last'.op = "get_metadata")
          => /\ self'._model_cls = self._model_cls
             /\ self'._defaults = self._defaults
             /\ self'._active = self._active
             /\ (last.op = "get_metadata" /\ last.path = last'.path)
                    => last'.returned = last.returned]_vars

====
